---- MODULE Spec2Model ----
(***************************************************************************)
(* The Intcode virtual machine of the Advent-of-Code 2019 repository:      *)
(* Instruction::new, Program::get_parameter / set_parameter /              *)
(* get_output_idx / get_input / run_program of day_09.rs, and the queued-  *)
(* input Program of day_17.rs.                                             *)
(*                                                                         *)
(* Representation.  A Vec<i64> is a sequence; the Rust index i is the TLA+ *)
(* index i + 1.  An i64 is an integer.  A usize u is the integer u when    *)
(* u < 2^63 and the negative integer u - 2^64 otherwise (the bits of the   *)
(* i64 it was cast from), so a negative number in a usize position stands  *)
(* for a value of at least 2^63: it is never a valid index, and its        *)
(* decimal digits are computed from 2^64 by UsizeRem100 / UsizeDiv100Rev.  *)
(* One loop iteration of run_program is one step; `status` is the          *)
(* position of the caller / callee.                                        *)
(***************************************************************************)
EXTENDS Integers, Sequences, FiniteSets, TLC

VARIABLES
    memory,         \* Program.memory : Vec<i64>
    pointer_idx,    \* Program.pointer_idx : usize
    relative_base,  \* Program.relative_base : i64
    first_input,    \* Program.first_input / Amplifier.first_input
    second_input,   \* Program.second_input / Amplifier.second_input
    current_input,  \* Program.current_input / Amplifier.current_input : usize
    inputs,         \* day_17 Program.inputs : VecDeque<i64>
    status,         \* "idle" (caller holds control), "running" (inside run_program), "panicked"
    result,         \* what the last finished run_program call returned
    prev,           \* what the call before it returned
    hist,           \* bookkeeping of the run: supplied / stored inputs, snapshot at the last return
    perms,          \* day_07 Permutations (idxs, swaps, i) and the Vec that collect() builds
    driver,         \* day_07 _q1 / _q2: the locals of the loops and the amplifiers
    jupiter,        \* day_12 Jupiter1D (moons) and the locals of period / _q2
    droid,          \* day_15 Droid (floor_map, leak_location, current_coord) and its maze
    twin,           \* a day_09 Program and a day_07 Amplifier constructed on one memory
    robot,          \* day_11 _q1: the Program, the position, the direction and the hull
    arcade          \* day_13 Program: the cabinet (score, display, ball, paddle) and its VM

\* the variables of the Intcode machines
machine ==
    <<memory, pointer_idx, relative_base, first_input, second_input, current_input, inputs,
      status, result, prev, hist>>

\* the variables of the solvers around them
further == <<twin, robot, arcade>>

others == <<perms, driver, jupiter, droid, further>>

vars == <<machine, others>>

Unused == [status |-> "unused"]

FurtherIdle ==
    /\ twin = Unused
    /\ robot = Unused
    /\ arcade = Unused

\* no solver has been constructed
OthersIdle ==
    /\ perms = Unused
    /\ driver = Unused
    /\ jupiter = Unused
    /\ droid = Unused
    /\ FurtherIdle

----------------------------------------------------------------------------
(* Bounds of the model *)

\* raw parameter cells of the generated instructions range over -1 .. MaxParam
MaxParam == 2
\* |relative_base| is kept within MaxBase (adjust-relative-base inside a loop), see BaseBound
MaxBase == 6
\* number of add_input calls of a day_17 run
MaxInputs == 3
\* the decimal digits of the numbers handed to Instruction::new range over 0 .. MaxDigit
MaxDigit == 3
\* the memories of the memory specification have at most MaxLen cells
MaxLen == 3
\* and are accessed at the addresses up to MaxAddr
MaxAddr == 5
\* an Amplifier run is followed for MaxReads read-input instructions and MaxOutputs outputs
MaxReads == 3
MaxOutputs == 3

----------------------------------------------------------------------------
(* 2^64 = 18446744073709551616, split so that every piece fits TLC's integers *)

\* 2^64 mod 100
TwoPow64Rem100 == 16
\* 2^64 div 100 = 184467440737095516 = TwoPow64Div100Hi * 10^9 + TwoPow64Div100Lo
TwoPow64Div100Hi == 184467440
TwoPow64Div100Lo == 737095516

----------------------------------------------------------------------------
(* Helpers for Vec and decimal strings *)

Zeros(n) == [i \in 1..n |-> 0]

\* Vec::resize(new_len, 0): truncates or pads with zeros
Resize(v, n) ==
    IF Len(v) >= n THEN SubSeq(v, 1, n) ELSE v \o Zeros(n - Len(v))

\* Grow resizing to one cell too many
GrowTooFar(mem, idx) ==
    IF Len(mem) < idx + 1 THEN Resize(mem, idx + 2) ELSE mem

\* the `if self.memory.len() < idx+1 { self.memory.resize(idx+1, 0) }` idiom
Grow(mem, idx) ==
    IF Len(mem) < idx + 1 THEN Resize(mem, idx + 1) ELSE mem

RECURSIVE Pow10(_)
Pow10(i) == IF i = 0 THEN 1 ELSE 10 * Pow10(i - 1)

RECURSIVE DigitsRev(_)
\* m.to_string().chars().map(to_digit) followed by reverse(), for 0 <= m
DigitsRev(m) ==
    IF m < 10 THEN <<m>> ELSE <<m % 10>> \o DigitsRev(m \div 10)

\* number % 100 for a usize
UsizeRem100(n) ==
    IF n >= 0 THEN n % 100 ELSE ((n % 100) + TwoPow64Rem100) % 100

RECURSIVE DigitsFwd(_)
DigitsFwd(m) ==
    IF m < 10 THEN <<m>> ELSE DigitsFwd(m \div 10) \o <<m % 10>>

\* UsizeDiv100Rev without digit_list.reverse()
UsizeDiv100NoReverse(n) ==
    IF n >= 0
    THEN DigitsFwd(n \div 100)
    ELSE DigitsFwd(TwoPow64Div100Hi)
         \o DigitsFwd(TwoPow64Div100Lo + ((n + TwoPow64Rem100) \div 100))

\* the reversed decimal digits of number / 100 for a usize
UsizeDiv100Rev(n) ==
    IF n >= 0
    THEN DigitsRev(n \div 100)
    ELSE LET lo == TwoPow64Div100Lo + ((n + TwoPow64Rem100) \div 100)
         IN  Resize(DigitsRev(lo), 9) \o DigitsRev(TwoPow64Div100Hi)

----------------------------------------------------------------------------
(* Instruction::new *)

\* the match on opcode giving params_length; -1 stands for the error arm
ParamsLength(opcode) ==
    CASE opcode = 1 -> 3
      [] opcode = 2 -> 3
      [] opcode = 3 -> 1
      [] opcode = 4 -> 1
      [] opcode = 5 -> 2
      [] opcode = 6 -> 2
      [] opcode = 7 -> 3
      [] opcode = 8 -> 3
      [] opcode = 9 -> 1
      [] opcode = 99 -> 0
      [] OTHER -> -1

\* ModeOfDigit with a catch-all last arm
ModeOfDigitCatchAll(d) ==
    CASE d = 0 -> "Position"
      [] d = 1 -> "Immediate"
      [] OTHER -> "Relative"

ModeOfDigit(d) ==
    CASE d = 0 -> "Position"
      [] d = 1 -> "Immediate"
      [] d = 2 -> "Relative"
      [] OTHER -> "bad"

\* the error of Instruction::new: its message and the number it names
DecodeErr(opcode, msg, x) ==
    [ok |-> FALSE, opcode |-> opcode, parameters |-> <<>>, msg |-> msg, x |-> x]

\* the numbers the text of an error names: format!("Cannot read opcode: {}", x) and
\* format!("Cannot read parameter digit: {}", x) print x and nothing else
NumbersNamed(e) == {e.val}

\* the map over the resized digit_list, collected into Result<Vec<Parameter>>:
\* the first digit that is no mode is the error
Parameters(opcode, resized) ==
    IF \E i \in 1..Len(resized) : ModeOfDigit(resized[i]) = "bad"
    THEN DecodeErr(opcode, "Cannot read parameter digit",
                   resized[CHOOSE i \in 1..Len(resized) :
                              /\ ModeOfDigit(resized[i]) = "bad"
                              /\ \A j \in 1..(i - 1) : ModeOfDigit(resized[j]) # "bad"])
    ELSE [ok |-> TRUE, opcode |-> opcode,
          parameters |-> [i \in 1..Len(resized) |-> ModeOfDigit(resized[i])],
          msg |-> "", x |-> 0]

\* Result<Instruction>
InstructionNew(number) ==
    IF ParamsLength(UsizeRem100(number)) = -1
    THEN DecodeErr(UsizeRem100(number), "Cannot read opcode", UsizeRem100(number))
    ELSE Parameters(UsizeRem100(number),
                    Resize(UsizeDiv100Rev(number), ParamsLength(UsizeRem100(number))))

----------------------------------------------------------------------------
(* Memory access of Program *)

\* a usize that indexes a Vec of length len without panicking
IndexOk(idx, len) == idx >= 0 /\ idx < len

\* self.memory[idx] after the resize: [ok, mem, val]; ok = FALSE is a panic (an
\* address of 2^63 or more: idx+1 overflows or the resize exceeds the capacity limit)
ReadAt(mem, idx) ==
    IF idx < 0 THEN [ok |-> FALSE, mem |-> mem, val |-> 0]
    ELSE [ok |-> TRUE, mem |-> Grow(mem, idx), val |-> Grow(mem, idx)[idx + 1]]

\* get_parameter whose Relative arm is a copy of the Position arm
GetParameterNoBase(mem, rb, parameter_form, val) ==
    CASE parameter_form = "Position" -> ReadAt(mem, val)
      [] parameter_form = "Immediate" -> [ok |-> TRUE, mem |-> mem, val |-> val]
      [] OTHER -> ReadAt(mem, val)

\* get_parameter: [ok, mem, val]
GetParameter(mem, rb, parameter_form, val) ==
    CASE parameter_form = "Position" -> ReadAt(mem, val)
      [] parameter_form = "Immediate" -> [ok |-> TRUE, mem |-> mem, val |-> val]
      [] OTHER -> ReadAt(mem, rb + val)

\* set_parameter: [ok, mem]
SetParameter(mem, idx, val) ==
    IF idx < 0 THEN [ok |-> FALSE, mem |-> mem]
    ELSE [ok |-> TRUE, mem |-> [Grow(mem, idx) EXCEPT ![idx + 1] = val]]

\* get_output_idx whose Relative arm is a copy of the Position arm
GetOutputIdxNoBase(mem, rb, idx, parameter_type) ==
    CASE parameter_type = "Position" ->
            [ok |-> TRUE, mem |-> Grow(mem, idx), idx |-> Grow(mem, idx)[idx + 1]]
      [] parameter_type = "Relative" ->
            [ok |-> TRUE, mem |-> Grow(mem, idx), idx |-> Grow(mem, idx)[idx + 1]]
      [] OTHER -> [ok |-> FALSE, mem |-> Grow(mem, idx), idx |-> 0]

\* get_output_idx: [ok, mem, idx]; ok = FALSE is panic!("Should never be here")
GetOutputIdx(mem, rb, idx, parameter_type) ==
    CASE parameter_type = "Position" ->
            [ok |-> TRUE, mem |-> Grow(mem, idx), idx |-> Grow(mem, idx)[idx + 1]]
      [] parameter_type = "Relative" ->
            [ok |-> TRUE, mem |-> Grow(mem, idx), idx |-> Grow(mem, idx)[idx + 1] + rb]
      [] OTHER -> [ok |-> FALSE, mem |-> Grow(mem, idx), idx |-> 0]

----------------------------------------------------------------------------
(* One iteration of the loop of run_program.  The outcome of an iteration: *)
(*   "continue" the loop goes round again       "some"  return Ok(Some(val)) *)
(*   "none"     break, then return Ok(None)     "err"   return Err(msg)      *)
(*   "panic"    the thread panics (msg says where)                           *)
(* `prints` is TRUE for day_09, whose arms begin with a println! of the raw  *)
(* parameter cells (an index or a slice of memory); day_17 has the same arms *)
(* without those lines.  An arm is a chain of operators, each taking what    *)
(* the statements before it produced.                                        *)

Outcome(kind, mem, pc, rb, val, msg, popped) ==
    [kind |-> kind, mem |-> mem, pc |-> pc, rb |-> rb, val |-> val, msg |-> msg,
     popped |-> popped]

Continue(mem, pc, rb) == Outcome("continue", mem, pc, rb, 0, "", FALSE)

PanicOut(mem, pc, rb, msg) == Outcome("panic", mem, pc, rb, 0, msg, FALSE)

OutOfBounds == "index out of bounds"
BadAddress == "address beyond the capacity of a Vec"
BadWriteMode == "Should never be here"

\* arm 2 pasted from arm 1 with the operator left as it was
MulValuePasted(input_1, input_2) == input_1 + input_2

\* less-than that also accepts equal operands
LessThanValueOrEqual(input_1, input_2) == IF input_1 <= input_2 THEN 1 ELSE 0

\* equals with the two results exchanged
EqualsValueExchanged(input_1, input_2) == IF input_1 = input_2 THEN 0 ELSE 1

\* the values the arms compute
AddValue(input_1, input_2) == input_1 + input_2
MulValue(input_1, input_2) == input_1 * input_2
LessThanValue(input_1, input_2) == IF input_1 < input_2 THEN 1 ELSE 0
EqualsValue(input_1, input_2) == IF input_1 = input_2 THEN 1 ELSE 0

\* the pointer after an arm that does not jump
AfterThreeParams(pc) == pc + 4
AfterTwoParams(pc) == pc + 3
AfterOneParam(pc) == pc + 2

\* println!("Parameters = {:?}", &self.memory[pc+1..pc+1+n]) (n = 1: &self.memory[pc+1])
PrintParamsOk(prints, mem, pc, n) == (~prints) \/ pc + 1 + n <= Len(mem)

NoInputs(mem, msg) == [ok |-> FALSE, mem |-> mem, a |-> 0, b |-> 0, msg |-> msg]

\* input_1 and input_2 of the arms 1, 2, 5, 6, 7, 8: [ok, mem, a, b, msg]
SecondInput(g1, g2) ==
    IF ~g2.ok THEN NoInputs(g1.mem, BadAddress)
    ELSE [ok |-> TRUE, mem |-> g2.mem, a |-> g1.val, b |-> g2.val, msg |-> ""]

FirstInput(g1, pc, rb, ins) ==
    IF ~g1.ok THEN NoInputs(g1.mem, BadAddress)
    ELSE IF ~IndexOk(pc + 2, Len(g1.mem)) THEN NoInputs(g1.mem, OutOfBounds)
    ELSE SecondInput(g1, GetParameter(g1.mem, rb, ins.parameters[2], g1.mem[pc + 3]))

TwoInputs(prints, mem, pc, rb, ins, n) ==
    IF ~PrintParamsOk(prints, mem, pc, n) \/ ~IndexOk(pc + 1, Len(mem))
    THEN NoInputs(mem, OutOfBounds)
    ELSE FirstInput(GetParameter(mem, rb, ins.parameters[1], mem[pc + 2]), pc, rb, ins)

\* self.set_parameter(output_idx, val)?; self.pointer_idx = next
Stored(s, next, rb) ==
    IF ~s.ok THEN PanicOut(s.mem, next, rb, BadAddress) ELSE Continue(s.mem, next, rb)

StoreAt(o, val, next, rb) ==
    IF ~o.ok THEN PanicOut(o.mem, next, rb, BadWriteMode)
    ELSE Stored(SetParameter(o.mem, o.idx, val), next, rb)

\* the tail of the arms 1, 2, 7, 8: output_idx, set_parameter, pointer_idx += 4
StoreThird(mem, pc, rb, ins, val) ==
    StoreAt(GetOutputIdx(mem, rb, pc + 3, ins.parameters[3]), val, AfterThreeParams(pc), rb)

Arm1Tail(t, pc, rb, ins) ==
    IF ~t.ok THEN PanicOut(t.mem, pc, rb, t.msg)
    ELSE StoreThird(t.mem, pc, rb, ins, AddValue(t.a, t.b))

Arm1(prints, mem, pc, rb, ins) ==
    Arm1Tail(TwoInputs(prints, mem, pc, rb, ins, 3), pc, rb, ins)

Arm2Tail(t, pc, rb, ins) ==
    IF ~t.ok THEN PanicOut(t.mem, pc, rb, t.msg)
    ELSE StoreThird(t.mem, pc, rb, ins, MulValue(t.a, t.b))

Arm2(prints, mem, pc, rb, ins) ==
    Arm2Tail(TwoInputs(prints, mem, pc, rb, ins, 3), pc, rb, ins)

\* gi is what get_input returns when it is called: [ok, val, msg, rest]
Arm3Store(s, gi, next, rb) ==
    IF ~s.ok THEN PanicOut(s.mem, next, rb, BadAddress)
    ELSE Outcome("continue", s.mem, next, rb, gi.val, "", TRUE)

\* arm 3 advancing the pointer before get_input is asked
Arm3TailAdvanceFirst(o, pc, rb, gi) ==
    IF ~o.ok THEN PanicOut(o.mem, pc, rb, BadWriteMode)
    ELSE IF ~gi.ok THEN Outcome("err", o.mem, AfterOneParam(pc), rb, 0, gi.msg, FALSE)
    ELSE Arm3Store(SetParameter(o.mem, o.idx, gi.val), gi, AfterOneParam(pc), rb)

Arm3Tail(o, pc, rb, gi) ==
    IF ~o.ok THEN PanicOut(o.mem, pc, rb, BadWriteMode)
    ELSE IF ~gi.ok THEN Outcome("err", o.mem, pc, rb, 0, gi.msg, FALSE)
    ELSE Arm3Store(SetParameter(o.mem, o.idx, gi.val), gi, AfterOneParam(pc), rb)

Arm3(prints, mem, pc, rb, ins, gi) ==
    IF ~PrintParamsOk(prints, mem, pc, 1) THEN PanicOut(mem, pc, rb, OutOfBounds)
    ELSE Arm3Tail(GetOutputIdx(mem, rb, pc + 1, ins.parameters[1]), pc, rb, gi)

\* arm 4 returning before the pointer is advanced
Arm4TailNoAdvance(g, pc, rb) ==
    IF ~g.ok THEN PanicOut(g.mem, pc, rb, BadAddress)
    ELSE Outcome("some", g.mem, pc, rb, g.val, "", FALSE)

Arm4Tail(g, pc, rb) ==
    IF ~g.ok THEN PanicOut(g.mem, pc, rb, BadAddress)
    ELSE Outcome("some", g.mem, AfterOneParam(pc), rb, g.val, "", FALSE)

Arm4(prints, mem, pc, rb, ins) ==
    IF ~PrintParamsOk(prints, mem, pc, 1) \/ ~IndexOk(pc + 1, Len(mem))
    THEN PanicOut(mem, pc, rb, OutOfBounds)
    ELSE Arm4Tail(GetParameter(mem, rb, ins.parameters[1], mem[pc + 2]), pc, rb)

Arm5Tail(t, pc, rb) ==
    IF ~t.ok THEN PanicOut(t.mem, pc, rb, t.msg)
    ELSE IF t.a # 0 THEN Continue(t.mem, t.b, rb)
    ELSE Continue(t.mem, AfterTwoParams(pc), rb)

Arm5(prints, mem, pc, rb, ins) ==
    Arm5Tail(TwoInputs(prints, mem, pc, rb, ins, 2), pc, rb)

\* arm 6 never taking the jump
Arm6TailFallThrough(t, pc, rb) ==
    IF ~t.ok THEN PanicOut(t.mem, pc, rb, t.msg)
    ELSE Continue(t.mem, AfterTwoParams(pc), rb)

Arm6Tail(t, pc, rb) ==
    IF ~t.ok THEN PanicOut(t.mem, pc, rb, t.msg)
    ELSE IF t.a = 0 THEN Continue(t.mem, t.b, rb)
    ELSE Continue(t.mem, AfterTwoParams(pc), rb)

Arm6(prints, mem, pc, rb, ins) ==
    Arm6Tail(TwoInputs(prints, mem, pc, rb, ins, 2), pc, rb)

Arm7Tail(t, pc, rb, ins) ==
    IF ~t.ok THEN PanicOut(t.mem, pc, rb, t.msg)
    ELSE StoreThird(t.mem, pc, rb, ins, LessThanValue(t.a, t.b))

Arm7(prints, mem, pc, rb, ins) ==
    Arm7Tail(TwoInputs(prints, mem, pc, rb, ins, 3), pc, rb, ins)

Arm8Tail(t, pc, rb, ins) ==
    IF ~t.ok THEN PanicOut(t.mem, pc, rb, t.msg)
    ELSE StoreThird(t.mem, pc, rb, ins, EqualsValue(t.a, t.b))

Arm8(prints, mem, pc, rb, ins) ==
    Arm8Tail(TwoInputs(prints, mem, pc, rb, ins, 3), pc, rb, ins)

\* arm 9 assigning the operand to the relative base
Arm9TailAssign(g, pc, rb) ==
    IF ~g.ok THEN PanicOut(g.mem, pc, rb, BadAddress)
    ELSE Continue(g.mem, AfterOneParam(pc), g.val)

Arm9Tail(g, pc, rb) ==
    IF ~g.ok THEN PanicOut(g.mem, pc, rb, BadAddress)
    ELSE Continue(g.mem, AfterOneParam(pc), rb + g.val)

Arm9(prints, mem, pc, rb, ins) ==
    IF ~PrintParamsOk(prints, mem, pc, 1) \/ ~IndexOk(pc + 1, Len(mem))
    THEN PanicOut(mem, pc, rb, OutOfBounds)
    ELSE Arm9Tail(GetParameter(mem, rb, ins.parameters[1], mem[pc + 2]), pc, rb)

\* arm 99 stepping over the 99 before it breaks
Arm99Advance(mem, pc, rb) == Outcome("none", mem, pc + 1, rb, 0, "", FALSE)

\* 99 => break, and the Ok(None) after the loop: the pointer stays on the 99
Arm99(mem, pc, rb) == Outcome("none", mem, pc, rb, 0, "", FALSE)

\* the match on current_instruction.opcode
Dispatch(prints, mem, pc, rb, gi, ins) ==
    CASE ins.opcode = 1 -> Arm1(prints, mem, pc, rb, ins)
      [] ins.opcode = 2 -> Arm2(prints, mem, pc, rb, ins)
      [] ins.opcode = 3 -> Arm3(prints, mem, pc, rb, ins, gi)
      [] ins.opcode = 4 -> Arm4(prints, mem, pc, rb, ins)
      [] ins.opcode = 5 -> Arm5(prints, mem, pc, rb, ins)
      [] ins.opcode = 6 -> Arm6(prints, mem, pc, rb, ins)
      [] ins.opcode = 7 -> Arm7(prints, mem, pc, rb, ins)
      [] ins.opcode = 8 -> Arm8(prints, mem, pc, rb, ins)
      [] ins.opcode = 9 -> Arm9(prints, mem, pc, rb, ins)
      [] ins.opcode = 99 -> Arm99(mem, pc, rb)
      [] OTHER -> Outcome("err", mem, pc, rb, ins.opcode, "Incorrect opcode", FALSE)

\* the ? stepping over the faulting cell before it returns the error
DecodedSkip(prints, mem, pc, rb, gi, ins) ==
    IF ~ins.ok THEN Outcome("err", mem, pc + 1, rb, ins.x, ins.msg, FALSE)
    ELSE Dispatch(prints, mem, pc, rb, gi, ins)

\* Instruction::new(self.memory[self.pointer_idx] as usize)?
Decoded(prints, mem, pc, rb, gi, ins) ==
    IF ~ins.ok THEN Outcome("err", mem, pc, rb, ins.x, ins.msg, FALSE)
    ELSE Dispatch(prints, mem, pc, rb, gi, ins)

\* the loop executing the Instruction decoded from the cell as the Program was constructed
ExecCached(prints, mem, pc, rb, gi) ==
    IF ~IndexOk(pc, Len(mem)) THEN PanicOut(mem, pc, rb, OutOfBounds)
    ELSE Decoded(prints, mem, pc, rb, gi,
                 InstructionNew(IF IndexOk(pc, Len(hist.init)) THEN hist.init[pc + 1]
                                ELSE mem[pc + 1]))

\* the body of the loop
Exec(prints, mem, pc, rb, gi) ==
    IF ~IndexOk(pc, Len(mem)) THEN PanicOut(mem, pc, rb, OutOfBounds)
    ELSE Decoded(prints, mem, pc, rb, gi, InstructionNew(mem[pc + 1]))

\* the opcode the loop is about to execute; -1 when the fetch or the decode fails
OpcodeAt(mem, pc) ==
    IF ~IndexOk(pc, Len(mem)) THEN -1
    ELSE IF ~InstructionNew(mem[pc + 1]).ok THEN -1
    ELSE InstructionNew(mem[pc + 1]).opcode

\* day_09 get_input: Ok(self.first_input); there is no queue to pop
GetInput09(first, queue) == [ok |-> TRUE, val |-> first, msg |-> "", rest |-> queue]

\* get_input popping the newest value
GetInput17PopBack(queue) ==
    IF queue = <<>> THEN [ok |-> FALSE, val |-> 0, msg |-> "No inputs left", rest |-> queue]
    ELSE [ok |-> TRUE, val |-> queue[Len(queue)], msg |-> "",
          rest |-> SubSeq(queue, 1, Len(queue) - 1)]

\* day_17 get_input: pop_front, or Err("No inputs left")
GetInput17(queue) ==
    IF queue = <<>> THEN [ok |-> FALSE, val |-> 0, msg |-> "No inputs left", rest |-> queue]
    ELSE [ok |-> TRUE, val |-> Head(queue), msg |-> "", rest |-> Tail(queue)]

----------------------------------------------------------------------------
(* The programs the machines are constructed on: one generated instruction *)
(* (every opcode, every combination of mode digits, raw parameters in      *)
(* Vals) between a prefix that sets the relative base and a suffix.        *)

Vals == -1..MaxParam

Instr3(op) ==
    {<<op + 100 * a + 1000 * b + 10000 * c, x, y, z>> :
        a \in 0..2, b \in 0..2, c \in 0..2, x \in Vals, y \in Vals, z \in Vals}

Instr2(op) ==
    {<<op + 100 * a + 1000 * b, x, y>> : a \in 0..2, b \in 0..2, x \in Vals, y \in Vals}

Instr1(op) == {<<op + 100 * a, x>> : a \in 0..2, x \in Vals}

\* cells Instruction::new rejects, and cells with digits beyond the arity
OddInstrs ==
    {<<0>>, <<77, 0>>, <<304, 1>>, <<3001, 1, 1, 0>>, <<1301, 1, 1, 0>>, <<30001, 1, 1, 0>>,
     <<199>>, <<-1>>}

Instrs ==
    Instr3(1) \cup Instr3(2) \cup Instr3(7) \cup Instr3(8) \cup Instr2(5) \cup Instr2(6)
    \cup Instr1(3) \cup Instr1(4) \cup Instr1(9) \cup {<<99>>} \cup OddInstrs

\* adjust-relative-base to a base below and beyond the cells of the instruction
Prefixes == {<<109, -1>>, <<109, 4>>}

Suffixes == {<<>>, <<99>>, <<4, 0, 99>>}

\* a jump beyond the end of the memory, and programs whose first instruction overwrites
\* the cell of the second: an illegal 0 becomes 99, an add becomes a multiply, a halt
\* becomes a write-output
ExtraPrograms ==
    {<<1105, 1, 100>>,
     <<1101, 100, -1, 4, 0>>,
     <<1101, 1, 1, 4, 1101, 5, 6, 0, 99>>,
     <<1102, 2, 52, 4, 99, 0, 99>>}

Programs09 ==
    ExtraPrograms
    \cup {ins \o suf : ins \in Instrs, suf \in Suffixes}
    \cup {pre \o ins \o suf : pre \in Prefixes, ins \in Instrs, suf \in {<<>>, <<99>>}}

\* day_09 _q1 and _q2 construct the Program with first_input 1 and 2; a program
\* without a read-input cell is constructed as _q1 does
FirstInputs(mem) ==
    IF \E i \in 1..Len(mem) : mem[i] % 100 = 3 THEN {1, 2} ELSE {1}

----------------------------------------------------------------------------
(* The state machine.  day = 9: day_09 Program; day = 17: day_17 Program.  *)

NoResult == [kind |-> "never", val |-> 0, msg |-> ""]

\* hist: the memory the Program was constructed on; the pointer, the cell and the decoded
\* Instruction of the last iteration; the values passed to add_input and the values the
\* read-input instructions stored, in order; the values the calls returned as Some(v), in
\* order; the last direct access (memory specification)
NoHist(mem) ==
    [init |-> mem, at |-> -1, cell |-> 0, ins |-> DecodeErr(-1, "", 0),
     supplied |-> <<>>, stored |-> <<>>, out |-> <<>>,
     access |-> [kind |-> "none", mode |-> "", raw |-> 0, addr |-> 0, val |-> 0, ok |-> TRUE,
                 before |-> <<>>]]

\* Program::new, day_09
Init ==
    /\ memory \in Programs09
    /\ pointer_idx = 0
    /\ relative_base = 0
    /\ first_input \in FirstInputs(memory)
    /\ second_input = first_input
    /\ current_input = 1
    /\ inputs = <<>>
    /\ status = "idle"
    /\ result = NoResult
    /\ prev = NoResult
    /\ hist = NoHist(memory)
    /\ OthersIdle

GetInput(day) ==
    IF day = 9 THEN GetInput09(first_input, inputs) ELSE GetInput17(inputs)

\* the iteration the machine is about to execute
Iter(day) == Exec(day = 9, memory, pointer_idx, relative_base, GetInput(day))

Abs(x) == IF x < 0 THEN -x ELSE x

\* the caller calls run_program: the loop starts at the stored pointer
Call ==
    /\ status = "idle"
    /\ status' = "running"
    /\ UNCHANGED <<others, memory, pointer_idx, relative_base, first_input, second_input, current_input, inputs, result, prev, hist>>

\* the relative bases the model follows: within MaxBase, or within the length of the
\* program the machine was constructed on when that is longer
BaseBound == IF Len(hist.init) > MaxBase THEN Len(hist.init) ELSE MaxBase

\* an iteration of opcode op after which the loop goes round again
Continues(r, day, op) ==
    /\ r.kind = "continue"
    /\ Abs(r.rb) <= BaseBound
    /\ memory' = r.mem
    /\ pointer_idx' = r.pc
    /\ relative_base' = r.rb
    /\ inputs' = IF r.popped THEN GetInput(day).rest ELSE inputs
    /\ hist' = [hist EXCEPT !.at = pointer_idx,
                            !.cell = memory[pointer_idx + 1],
                            !.ins = InstructionNew(memory[pointer_idx + 1]),
                            !.stored = IF r.popped THEN Append(@, r.val) ELSE @]
    /\ UNCHANGED <<others, first_input, second_input, current_input, status, result, prev>>

\* an iteration that ends the call: Ok(Some(v)), Ok(None) or Err
Returns(r, kind) ==
    /\ r.kind = kind
    /\ memory' = r.mem
    /\ pointer_idx' = r.pc
    /\ relative_base' = r.rb
    /\ result' = [kind |-> r.kind, val |-> r.val, msg |-> r.msg]
    /\ hist' = [hist EXCEPT !.at = pointer_idx,
                            !.cell = memory[pointer_idx + 1],
                            !.ins = InstructionNew(memory[pointer_idx + 1]),
                            !.out = IF kind = "some" THEN Append(@, r.val) ELSE @]
    /\ prev' = result
    /\ status' = "idle"
    /\ UNCHANGED <<others, first_input, second_input, current_input, inputs>>

\* an iteration that panics: the thread unwinds and the Program is gone
Panics(r) ==
    /\ r.kind = "panic"
    /\ result' = [kind |-> "panic", val |-> 0, msg |-> r.msg]
    /\ prev' = result
    /\ status' = "panicked"
    /\ hist' = IF IndexOk(pointer_idx, Len(memory))
               THEN [hist EXCEPT !.at = pointer_idx,
                                 !.cell = memory[pointer_idx + 1],
                                 !.ins = InstructionNew(memory[pointer_idx + 1])]
               ELSE hist
    /\ UNCHANGED <<others, memory, pointer_idx, relative_base, first_input, second_input, current_input, inputs>>

Running(op) == status = "running" /\ OpcodeAt(memory, pointer_idx) = op

Add == Running(1) /\ Continues(Iter(9), 9, 1)

Multiply == Running(2) /\ Continues(Iter(9), 9, 2)

ReadInput == Running(3) /\ Continues(Iter(9), 9, 3)

JumpIfTrue == Running(5) /\ Continues(Iter(9), 9, 5)

JumpIfFalse == Running(6) /\ Continues(Iter(9), 9, 6)

LessThan == Running(7) /\ Continues(Iter(9), 9, 7)

Equals == Running(8) /\ Continues(Iter(9), 9, 8)

AdjustBase == Running(9) /\ Continues(Iter(9), 9, 9)

WriteOutput == status = "running" /\ Returns(Iter(9), "some")

Halt == status = "running" /\ Returns(Iter(9), "none")

DecodeError == status = "running" /\ Returns(Iter(9), "err")

Panic == status = "running" /\ Panics(Iter(9))

Next ==
    \/ Call
    \/ Add
    \/ Multiply
    \/ ReadInput
    \/ WriteOutput
    \/ JumpIfTrue
    \/ JumpIfFalse
    \/ LessThan
    \/ Equals
    \/ AdjustBase
    \/ Halt
    \/ DecodeError
    \/ Panic

Spec == Init /\ [][Next]_vars

----------------------------------------------------------------------------
(* The day_09 Program and its input: the caller constructs the Program on   *)
(* (memory, first_input, second_input) and may call set_input between two    *)
(* calls of run_program.                                                      *)

\* the equals-to-8 test program
EqualsProgram == <<3, 9, 8, 9, 10, 9, 4, 9, 99, -1, 8>>

InputPrograms ==
    {EqualsProgram, <<3, 0, 4, 0, 99>>, <<3, 0, 4, 0, 3, 1, 4, 1, 99>>, <<3, 3, 1108, 0, 8, 1, 4, 1, 99>>}

\* the values the caller passes to Program::new and to set_input
InputValues == {7, 8, 9}

\* Program::new(memory, first_input, second_input)
InitInput ==
    /\ memory \in InputPrograms
    /\ pointer_idx = 0
    /\ relative_base = 0
    /\ first_input \in InputValues
    /\ second_input \in InputValues
    /\ current_input = 1
    /\ inputs = <<>>
    /\ status = "idle"
    /\ result = NoResult
    /\ prev = NoResult
    /\ hist = NoHist(memory)
    /\ OthersIdle

\* the caller calls set_input(v) between two calls of run_program
SetInput ==
    /\ status = "idle"
    /\ Len(hist.supplied) < MaxInputs
    /\ \E v \in InputValues :
          /\ second_input' = v
          /\ hist' = [hist EXCEPT !.supplied = Append(@, v)]
    /\ UNCHANGED <<others, memory, pointer_idx, relative_base, first_input, current_input, inputs, status, result, prev>>

NextInput ==
    \/ SetInput
    \/ Call
    \/ ReadInput
    \/ Equals
    \/ WriteOutput
    \/ Halt

SpecInput == InitInput /\ [][NextInput]_vars

----------------------------------------------------------------------------
(* The day_17 Program: the same loop without the println! lines, get_input *)
(* popping the queue that add_input fills.                                  *)

\* the values the caller passes to add_input
InputVals == {10, 20}

Instrs17 ==
    Instr1(3)
    \cup {<<4, 0>>, <<104, 1>>, <<204, 1>>, <<109, 1>>, <<9, 1>>,
          <<1105, 1, 0>>, <<1105, 0, 0>>, <<5, 0, 1>>, <<1106, 0, 0>>, <<6, 1, 2>>,
          <<1101, 1, 2, 0>>, <<1002, 1, 2, 5>>, <<20107, 0, 1, 0>>, <<108, 3, 0, 1>>,
          <<99>>, <<77, 0>>, <<3>>}

Suffixes17 ==
    {<<>>, <<99>>, <<3, 1, 99>>, <<3, 0, 4, 0, 99>>, <<3, 0, 203, 0, 4, 0, 1105, 1, 2>>}

Prefixes17 == {<<>>, <<109, 4>>, <<3, 0>>}

Programs17 ==
    {pre \o ins \o suf : pre \in Prefixes17, ins \in Instrs17, suf \in Suffixes17}

\* Program::new, day_17
Init17 ==
    /\ memory \in Programs17
    /\ pointer_idx = 0
    /\ relative_base = 0
    /\ first_input = 0
    /\ second_input = 0
    /\ current_input = 1
    /\ inputs = <<>>
    /\ status = "idle"
    /\ result = NoResult
    /\ prev = NoResult
    /\ hist = NoHist(memory)
    /\ OthersIdle

\* the caller calls add_input(v) between two calls of run_program
AddInput ==
    /\ status = "idle"
    /\ Len(hist.supplied) < MaxInputs
    /\ \E v \in InputVals :
          /\ inputs' = Append(inputs, v)
          /\ hist' = [hist EXCEPT !.supplied = Append(@, v)]
    /\ UNCHANGED <<others, memory, pointer_idx, relative_base, first_input, second_input, current_input, status, result, prev>>

Add17 == Running(1) /\ Continues(Iter(17), 17, 1)

Multiply17 == Running(2) /\ Continues(Iter(17), 17, 2)

ReadInput17 == Running(3) /\ Continues(Iter(17), 17, 3)

JumpIfTrue17 == Running(5) /\ Continues(Iter(17), 17, 5)

JumpIfFalse17 == Running(6) /\ Continues(Iter(17), 17, 6)

LessThan17 == Running(7) /\ Continues(Iter(17), 17, 7)

Equals17 == Running(8) /\ Continues(Iter(17), 17, 8)

AdjustBase17 == Running(9) /\ Continues(Iter(17), 17, 9)

WriteOutput17 == status = "running" /\ Returns(Iter(17), "some")

Halt17 == status = "running" /\ Returns(Iter(17), "none")

DecodeError17 == Running(-1) /\ Returns(Iter(17), "err")

\* get_input()? with the queue empty: Err("No inputs left") leaves the loop
NoInputsLeft17 == Running(3) /\ Returns(Iter(17), "err")

Panic17 == status = "running" /\ Panics(Iter(17))

Next17 ==
    \/ AddInput
    \/ Call
    \/ Add17
    \/ Multiply17
    \/ ReadInput17
    \/ WriteOutput17
    \/ JumpIfTrue17
    \/ JumpIfFalse17
    \/ LessThan17
    \/ Equals17
    \/ AdjustBase17
    \/ Halt17
    \/ DecodeError17
    \/ NoInputsLeft17
    \/ Panic17

Spec17 == Init17 /\ [][Next17]_vars

----------------------------------------------------------------------------
(* The decoder specification: the day_09 machine constructed on one        *)
(* instruction cell, every opcode 0..99 under every combination of mode    *)
(* digits 0..MaxDigit, with or without a further digit beyond the third.   *)

Numbers ==
    {op + 100 * d1 + 1000 * d2 + 10000 * d3 + 100000 * d4 :
        op \in 0..99, d1 \in 0..MaxDigit, d2 \in 0..MaxDigit, d3 \in 0..MaxDigit, d4 \in 0..1}

InitDecode ==
    /\ memory \in {<<n, 1, 2, 3>> : n \in Numbers}
    /\ pointer_idx = 0
    /\ relative_base = 0
    /\ first_input = 1
    /\ second_input = 1
    /\ current_input = 1
    /\ inputs = <<>>
    /\ status = "idle"
    /\ result = NoResult
    /\ prev = NoResult
    /\ hist = NoHist(memory)
    /\ OthersIdle

SpecDecode == InitDecode /\ [][Next]_vars

----------------------------------------------------------------------------
(* The memory specification: one call of get_parameter or set_parameter on *)
(* a Program of day_09 whose memory has 0..MaxLen cells.                    *)

Memories == UNION {[1..n -> {3, 5}] : n \in 0..MaxLen}

InitMem ==
    /\ memory \in Memories
    /\ pointer_idx = 0
    /\ relative_base \in -1..2
    /\ first_input = 1
    /\ second_input = 1
    /\ current_input = 1
    /\ inputs = <<>>
    /\ status = "idle"
    /\ result = NoResult
    /\ prev = NoResult
    /\ hist = NoHist(memory)
    /\ OthersIdle

\* what a call did: the mode and raw value it was given, the address it concerns, and
\* what it produced (r)
Accessed(kind, mode, raw, addr, val, r) ==
    /\ memory' = r.mem
    /\ status' = IF r.ok THEN "accessed" ELSE "panicked"
    /\ hist' = [hist EXCEPT !.access = [kind |-> kind, mode |-> mode, raw |-> raw,
                                        addr |-> addr, val |-> val,
                                        ok |-> r.ok, before |-> memory]]
    /\ UNCHANGED <<others, pointer_idx, relative_base, first_input, second_input, current_input, inputs,
                   result, prev>>

\* self.get_parameter(Position, val)
ReadPosition ==
    /\ status = "idle"
    /\ \E val \in -1..MaxAddr :
          Accessed("read", "Position", val, val,
                   GetParameter(memory, relative_base, "Position", val).val,
                   GetParameter(memory, relative_base, "Position", val))

\* self.get_parameter(Immediate, val)
ReadImmediate ==
    /\ status = "idle"
    /\ \E val \in -1..MaxAddr :
          Accessed("immediate", "Immediate", val, val,
                   GetParameter(memory, relative_base, "Immediate", val).val,
                   GetParameter(memory, relative_base, "Immediate", val))

\* self.get_parameter(Relative, val)
ReadRelative ==
    /\ status = "idle"
    /\ \E val \in -1..(MaxAddr - relative_base) :
          Accessed("read", "Relative", val, relative_base + val,
                   GetParameter(memory, relative_base, "Relative", val).val,
                   GetParameter(memory, relative_base, "Relative", val))

\* self.set_parameter(idx, val)
Write ==
    /\ status = "idle"
    /\ \E idx \in -1..MaxAddr, val \in {0, 9} :
          Accessed("write", "", idx, idx, val, SetParameter(memory, idx, val))

NextMem == ReadPosition \/ ReadImmediate \/ ReadRelative \/ Write

SpecMem == InitMem /\ [][NextMem]_vars

----------------------------------------------------------------------------
(* The program of tests::day09_q1_test3, constructed as the test and _q1   *)
(* do (inputs 1, 1) and as _q2 does (inputs 2, 2), and run by calling      *)
(* run_program again after every output.                                   *)

Quine == <<109, 1, 204, -1, 1001, 100, 1, 100, 1008, 100, 16, 101, 1006, 101, 0, 99>>

InitQuine ==
    /\ memory = Quine
    /\ pointer_idx = 0
    /\ relative_base = 0
    /\ first_input \in {1, 2}
    /\ second_input = first_input
    /\ current_input = 1
    /\ inputs = <<>>
    /\ status = "idle"
    /\ result = NoResult
    /\ prev = NoResult
    /\ hist = NoHist(memory)
    /\ OthersIdle

\* the instructions the program is made of
NextQuine ==
    \/ Call
    \/ Add
    \/ WriteOutput
    \/ JumpIfFalse
    \/ Equals
    \/ AdjustBase
    \/ Halt

SpecQuine == InitQuine /\ [][NextQuine]_vars

----------------------------------------------------------------------------
(* The Amplifier of day_07.rs: two modes, no relative base, an i32 memory   *)
(* that is indexed directly and never grows, the two inputs first_input /   *)
(* second_input selected by current_input.                                  *)

\* the match on opcode giving params_length; -1 stands for the error arm
ParamsLength07(opcode) ==
    CASE opcode = 1 -> 3
      [] opcode = 2 -> 3
      [] opcode = 3 -> 1
      [] opcode = 4 -> 1
      [] opcode = 5 -> 2
      [] opcode = 6 -> 2
      [] opcode = 7 -> 3
      [] opcode = 8 -> 3
      [] opcode = 99 -> 0
      [] OTHER -> -1

ModeOfDigit07(d) ==
    CASE d = 0 -> "Position"
      [] d = 1 -> "Immediate"
      [] OTHER -> "bad"

Parameters07(opcode, resized) ==
    IF \E i \in 1..Len(resized) : ModeOfDigit07(resized[i]) = "bad"
    THEN DecodeErr(opcode, "Cannot read parameter digit",
                   resized[CHOOSE i \in 1..Len(resized) :
                              /\ ModeOfDigit07(resized[i]) = "bad"
                              /\ \A j \in 1..(i - 1) : ModeOfDigit07(resized[j]) # "bad"])
    ELSE [ok |-> TRUE, opcode |-> opcode,
          parameters |-> [i \in 1..Len(resized) |-> ModeOfDigit07(resized[i])],
          msg |-> "", x |-> 0]

\* day_07 Instruction::new
InstructionNew07(number) ==
    IF ParamsLength07(UsizeRem100(number)) = -1
    THEN DecodeErr(UsizeRem100(number), "Cannot read opcode", UsizeRem100(number))
    ELSE Parameters07(UsizeRem100(number),
                      Resize(UsizeDiv100Rev(number), ParamsLength07(UsizeRem100(number))))

\* self.memory[idx]: [ok, mem, val]; ok = FALSE is the index panic
Index07(mem, idx) ==
    IF IndexOk(idx, Len(mem)) THEN [ok |-> TRUE, mem |-> mem, val |-> mem[idx + 1]]
    ELSE [ok |-> FALSE, mem |-> mem, val |-> 0]

\* Amplifier::get_parameter
GetParameter07(mem, parameter_form, val) ==
    IF parameter_form = "Position" THEN Index07(mem, val)
    ELSE [ok |-> TRUE, mem |-> mem, val |-> val]

\* get_input with the two inputs taken in turn
GetInput07Alternating(first, second, current) ==
    CASE current = 1 -> [ok |-> TRUE, val |-> first, msg |-> "", next |-> 2]
      [] current = 2 -> [ok |-> TRUE, val |-> second, msg |-> "", next |-> 1]
      [] OTHER -> [ok |-> FALSE, val |-> 0, msg |-> "Cannot understand input number",
                   next |-> current]

\* Amplifier::get_input: [ok, val, msg, next], next the current_input it leaves
GetInput07(first, second, current) ==
    CASE current = 1 -> [ok |-> TRUE, val |-> first, msg |-> "", next |-> 2]
      [] current = 2 -> [ok |-> TRUE, val |-> second, msg |-> "", next |-> 2]
      [] OTHER -> [ok |-> FALSE, val |-> 0, msg |-> "Cannot understand input number",
                   next |-> current]

\* input_1 and input_2 of the arms 1, 2, 5, 6, 7, 8: [ok, mem, a, b, msg]
SecondInput07(g1, g2) ==
    IF ~g2.ok THEN NoInputs(g1.mem, OutOfBounds)
    ELSE [ok |-> TRUE, mem |-> g1.mem, a |-> g1.val, b |-> g2.val, msg |-> ""]

FirstInput07(g1, pc, ins) ==
    IF ~g1.ok \/ ~IndexOk(pc + 2, Len(g1.mem)) THEN NoInputs(g1.mem, OutOfBounds)
    ELSE SecondInput07(g1, GetParameter07(g1.mem, ins.parameters[2], g1.mem[pc + 3]))

TwoInputs07(mem, pc, ins) ==
    IF ~IndexOk(pc + 1, Len(mem)) THEN NoInputs(mem, OutOfBounds)
    ELSE FirstInput07(GetParameter07(mem, ins.parameters[1], mem[pc + 2]), pc, ins)

\* self.memory[output_idx] = val; self.pointer_idx = next
StoreAt07(mem, output_idx, val, pc, next) ==
    IF ~IndexOk(output_idx, Len(mem)) THEN PanicOut(mem, pc, 0, OutOfBounds)
    ELSE Continue([mem EXCEPT ![output_idx + 1] = val], next, 0)

\* let output_idx = self.memory[self.pointer_idx+3] as usize, the store, pointer_idx += 4
StoreThird07(mem, pc, val) ==
    IF ~IndexOk(pc + 3, Len(mem)) THEN PanicOut(mem, pc, 0, OutOfBounds)
    ELSE StoreAt07(mem, mem[pc + 4], val, pc, AfterThreeParams(pc))

Arm1Tail07(t, pc) ==
    IF ~t.ok THEN PanicOut(t.mem, pc, 0, t.msg)
    ELSE StoreThird07(t.mem, pc, AddValue(t.a, t.b))

Arm2Tail07(t, pc) ==
    IF ~t.ok THEN PanicOut(t.mem, pc, 0, t.msg)
    ELSE StoreThird07(t.mem, pc, MulValue(t.a, t.b))

Arm7Tail07(t, pc) ==
    IF ~t.ok THEN PanicOut(t.mem, pc, 0, t.msg)
    ELSE StoreThird07(t.mem, pc, LessThanValue(t.a, t.b))

Arm8Tail07(t, pc) ==
    IF ~t.ok THEN PanicOut(t.mem, pc, 0, t.msg)
    ELSE StoreThird07(t.mem, pc, EqualsValue(t.a, t.b))

\* self.memory[output_idx] = self.get_input()?; self.pointer_idx += 2
Arm3Store07(mem, output_idx, gi, pc) ==
    IF ~gi.ok THEN Outcome("err", mem, pc, 0, 0, gi.msg, FALSE)
    ELSE IF ~IndexOk(output_idx, Len(mem)) THEN PanicOut(mem, pc, 0, OutOfBounds)
    ELSE Outcome("continue", [mem EXCEPT ![output_idx + 1] = gi.val], AfterOneParam(pc), 0,
                 gi.val, "", TRUE)

Arm3For07(mem, pc, gi) ==
    IF ~IndexOk(pc + 1, Len(mem)) THEN PanicOut(mem, pc, 0, OutOfBounds)
    ELSE Arm3Store07(mem, mem[pc + 2], gi, pc)

\* let output_idx = self.memory[self.pointer_idx+1] as usize; self.pointer_idx += 2;
\* return Ok(Some(self.memory[output_idx])): the decoded mode is not consulted
Arm4Out07(mem, ins, pc) ==
    IF ~IndexOk(mem[pc + 2], Len(mem)) THEN PanicOut(mem, pc, 0, OutOfBounds)
    ELSE Outcome("some", mem, AfterOneParam(pc), 0, mem[mem[pc + 2] + 1], "", FALSE)

Arm4For07(mem, pc, ins) ==
    IF ~IndexOk(pc + 1, Len(mem)) THEN PanicOut(mem, pc, 0, OutOfBounds)
    ELSE Arm4Out07(mem, ins, pc)

\* the match on current_instruction.opcode
Dispatch07(mem, pc, gi, ins) ==
    CASE ins.opcode = 1 -> Arm1Tail07(TwoInputs07(mem, pc, ins), pc)
      [] ins.opcode = 2 -> Arm2Tail07(TwoInputs07(mem, pc, ins), pc)
      [] ins.opcode = 3 -> Arm3For07(mem, pc, gi)
      [] ins.opcode = 4 -> Arm4For07(mem, pc, ins)
      [] ins.opcode = 5 -> Arm5Tail(TwoInputs07(mem, pc, ins), pc, 0)
      [] ins.opcode = 6 -> Arm6Tail(TwoInputs07(mem, pc, ins), pc, 0)
      [] ins.opcode = 7 -> Arm7Tail07(TwoInputs07(mem, pc, ins), pc)
      [] ins.opcode = 8 -> Arm8Tail07(TwoInputs07(mem, pc, ins), pc)
      [] ins.opcode = 99 -> Arm99(mem, pc, 0)
      [] OTHER -> Outcome("err", mem, pc, 0, ins.opcode, "Incorrect opcode", FALSE)

Decoded07(mem, pc, gi, ins) ==
    IF ~ins.ok THEN Outcome("err", mem, pc, 0, ins.x, ins.msg, FALSE)
    ELSE Dispatch07(mem, pc, gi, ins)

\* the body of the loop of Amplifier::run_program
Exec07(mem, pc, gi) ==
    IF ~IndexOk(pc, Len(mem)) THEN PanicOut(mem, pc, 0, OutOfBounds)
    ELSE Decoded07(mem, pc, gi, InstructionNew07(mem[pc + 1]))

\* the opcode the loop is about to execute; -1 when the fetch or the decode fails
OpcodeAt07(mem, pc) ==
    IF ~IndexOk(pc, Len(mem)) THEN -1
    ELSE IF ~InstructionNew07(mem[pc + 1]).ok THEN -1
    ELSE InstructionNew07(mem[pc + 1]).opcode

\* the programs the Amplifiers are constructed on: one instruction of every opcode under
\* every combination of the two modes, and cells the decoder rejects
TwoModes(ins) == \A i \in 0..2 : ((ins[1] \div 100) \div Pow10(i)) % 10 < 2

Instrs07 ==
    {ins \in Instr3(1) \cup Instr3(2) \cup Instr3(7) \cup Instr3(8) \cup Instr2(5)
             \cup Instr2(6) \cup Instr1(3) \cup Instr1(4) : TwoModes(ins)}
    \cup {<<99>>, <<0>>, <<109, 1>>, <<204, 1>>, <<4>>, <<1101, 1, 1>>}

Prefixes07 == {<<>>, <<3, 1>>}

Programs07 ==
    {pre \o ins \o suf : pre \in Prefixes07, ins \in Instrs07, suf \in {<<>>, <<99>>}}
    \cup {<<3, 0, 4, 0, 3, 1, 4, 1, 99>>, <<3, 3, 104, 0, 1105, 1, 0>>}

\* the phase settings of _q1 / _q2 and the signals passed to set_input
Phases == {0, 5}
Signals == {7}

\* Amplifier::new(memory, phase_setting, input) with input = 0 as _q1 / _q2 start
Init07 ==
    /\ memory \in Programs07
    /\ pointer_idx = 0
    /\ relative_base = 0
    /\ first_input \in Phases
    /\ second_input = 0
    /\ current_input = 1
    /\ inputs = <<>>
    /\ status = "idle"
    /\ result = NoResult
    /\ prev = NoResult
    /\ hist = NoHist(memory)
    /\ OthersIdle

Iter07 == Exec07(memory, pointer_idx, GetInput07(first_input, second_input, current_input))

\* Amplifier::set_input between two calls of run_program
SetInput07 ==
    /\ status = "idle"
    /\ \E v \in Signals :
          /\ second_input # v
          /\ second_input' = v
          /\ hist' = [hist EXCEPT !.supplied = Append(@, v)]
    /\ UNCHANGED <<others, memory, pointer_idx, relative_base, first_input, current_input, inputs, status,
                   result, prev>>

Continues07(r) ==
    /\ r.kind = "continue"
    /\ r.popped => Len(hist.stored) < MaxReads
    /\ memory' = r.mem
    /\ pointer_idx' = r.pc
    /\ current_input' =
          IF r.popped THEN GetInput07(first_input, second_input, current_input).next
          ELSE current_input
    /\ hist' = [hist EXCEPT !.at = pointer_idx,
                            !.cell = memory[pointer_idx + 1],
                            !.ins = InstructionNew07(memory[pointer_idx + 1]),
                            !.stored = IF r.popped THEN Append(@, r.val) ELSE @]
    /\ UNCHANGED <<others, relative_base, first_input, second_input, inputs, status, result, prev>>

Returns07(r, kind) ==
    /\ r.kind = kind
    /\ kind = "some" => Len(hist.out) < MaxOutputs
    /\ memory' = r.mem
    /\ pointer_idx' = r.pc
    /\ result' = [kind |-> r.kind, val |-> r.val, msg |-> r.msg]
    /\ hist' = [hist EXCEPT !.at = pointer_idx,
                            !.cell = memory[pointer_idx + 1],
                            !.ins = InstructionNew07(memory[pointer_idx + 1]),
                            !.out = IF kind = "some" THEN Append(@, r.val) ELSE @]
    /\ prev' = result
    /\ status' = "idle"
    /\ UNCHANGED <<others, relative_base, first_input, second_input, current_input, inputs>>

Panics07(r) ==
    /\ r.kind = "panic"
    /\ result' = [kind |-> "panic", val |-> 0, msg |-> r.msg]
    /\ prev' = result
    /\ status' = "panicked"
    /\ hist' = IF IndexOk(pointer_idx, Len(memory))
               THEN [hist EXCEPT !.at = pointer_idx,
                                 !.cell = memory[pointer_idx + 1],
                                 !.ins = InstructionNew07(memory[pointer_idx + 1])]
               ELSE hist
    /\ UNCHANGED <<others, memory, pointer_idx, relative_base, first_input, second_input, current_input,
                   inputs>>

Running07(op) == status = "running" /\ OpcodeAt07(memory, pointer_idx) = op

Add07 == Running07(1) /\ Continues07(Iter07)

Multiply07 == Running07(2) /\ Continues07(Iter07)

ReadInput07 == Running07(3) /\ Continues07(Iter07)

JumpIfTrue07 == Running07(5) /\ Continues07(Iter07)

JumpIfFalse07 == Running07(6) /\ Continues07(Iter07)

LessThan07 == Running07(7) /\ Continues07(Iter07)

Equals07 == Running07(8) /\ Continues07(Iter07)

WriteOutput07 == status = "running" /\ Returns07(Iter07, "some")

Halt07 == status = "running" /\ Returns07(Iter07, "none")

DecodeError07 == status = "running" /\ Returns07(Iter07, "err")

Panic07 == status = "running" /\ Panics07(Iter07)

Next07 ==
    \/ Call
    \/ SetInput07
    \/ Add07
    \/ Multiply07
    \/ ReadInput07
    \/ WriteOutput07
    \/ JumpIfTrue07
    \/ JumpIfFalse07
    \/ LessThan07
    \/ Equals07
    \/ Halt07
    \/ DecodeError07
    \/ Panic07

Spec07 == Init07 /\ [][Next07]_vars

----------------------------------------------------------------------------
(* 64-bit cells.  The machines above hold their cells as integers of the   *)
(* model, which is exact for the small values of their programs.  For the  *)
(* programs of tests::day09_q1_test1 / test2 a cell is held as the i64 it   *)
(* is: its 8 bytes in two's complement, least significant byte first.       *)

RECURSIVE BytesOf(_, _)
\* the k low bytes of the natural number n
BytesOf(n, k) == IF k = 0 THEN <<>> ELSE <<n % 256>> \o BytesOf(n \div 256, k - 1)

RECURSIVE Carry(_, _)
\* carry propagation over limbs that may exceed a byte; the carry out of the last is dropped
Carry(v, c) ==
    IF v = <<>> THEN <<>>
    ELSE <<(v[1] + c) % 256>> \o Carry(Tail(v), (v[1] + c) \div 256)

\* wrapping negation of a two's complement pattern
Negate(p) == Carry([i \in 1..Len(p) |-> 255 - p[i]], 1)

IsNegative(p) == p[Len(p)] >= 128

\* the magnitude of an i64 as an unsigned pattern (2^63 for i64::MIN)
Magnitude(p) == IF IsNegative(p) THEN Negate(p) ELSE p

\* an integer of the model as an i64
ToI64(n) == IF n >= 0 THEN BytesOf(n, 8) ELSE Negate(BytesOf(-n, 8))

RECURSIVE FromBytes(_)
FromBytes(v) == IF v = <<>> THEN 0 ELSE v[1] + 256 * FromBytes(Tail(v))

\* an i64 whose magnitude is below 2^24 is an integer of the model
IsSmall(p) == \A i \in 4..8 : Magnitude(p)[i] = 0

FromI64(p) ==
    IF IsNegative(p) THEN -FromBytes(SubSeq(Magnitude(p), 1, 3))
    ELSE FromBytes(SubSeq(p, 1, 3))

RECURSIVE ConvSum(_, _, _, _)
\* the sum of a[i] * b[j] over i + j = k + 1, from i on
ConvSum(a, b, k, i) ==
    IF i > Len(a) THEN 0
    ELSE (IF k + 1 - i \in 1..Len(b) THEN a[i] * b[k + 1 - i] ELSE 0) + ConvSum(a, b, k, i + 1)

\* the full unsigned product, Len(a) + Len(b) bytes
MulFull(a, b) == Carry([k \in 1..(Len(a) + Len(b)) |-> ConvSum(a, b, k, 1)], 0)

\* the unsigned sum, one byte longer than the operands
AddFull(a, b) == Carry([k \in 1..(Len(a) + 1) |-> IF k <= Len(a) THEN a[k] + b[k] ELSE 0], 0)

IsZero(v) == \A i \in 1..Len(v) : v[i] = 0

\* the pattern of 2^63
TwoPow63 == <<0, 0, 0, 0, 0, 0, 0, 128>>

\* a magnitude of 16 bytes with a sign is a value of i64
FitsI64(neg, m) ==
    /\ IsZero(SubSeq(m, 9, Len(m)))
    /\ \/ m[8] < 128
       \/ neg /\ SubSeq(m, 1, 8) = TwoPow63

\* input_1 * input_2 on i64: the product when it is a value of i64; otherwise the
\* operation overflows (a panic where overflow checks are compiled in, the wrapped
\* product where they are not)
MulOverflows(a, b) ==
    ~FitsI64(IsNegative(a) # IsNegative(b), MulFull(Magnitude(a), Magnitude(b)))

WrappingMul(a, b) == SubSeq(MulFull(a, b), 1, 8)

RECURSIVE DecimalMagnitude(_, _)
\* the magnitude (9 bytes) of a string of decimal digits, acc the value of the digits read
DecimalMagnitude(digits, acc) ==
    IF digits = <<>> THEN acc
    ELSE DecimalMagnitude(Tail(digits),
                          Carry([i \in 1..9 |-> 10 * acc[i] + (IF i = 1 THEN digits[1] ELSE 0)],
                                0))

\* str::parse::<i64> of an optional '-' and at most 19 decimal digits: [ok, val]
ParseI64(neg, digits) ==
    IF FitsI64(neg, DecimalMagnitude(digits, BytesOf(0, 9)))
    THEN [ok |-> TRUE,
          val |-> IF neg THEN Negate(SubSeq(DecimalMagnitude(digits, BytesOf(0, 9)), 1, 8))
                  ELSE SubSeq(DecimalMagnitude(digits, BytesOf(0, 9)), 1, 8)]
    ELSE [ok |-> FALSE, val |-> BytesOf(0, 8)]

RECURSIVE DivTen(_, _)
\* long division by 10 from the most significant byte (v is most significant first):
\* the quotient bytes followed by the remainder
DivTen(v, r) ==
    IF v = <<>> THEN <<r>>
    ELSE <<(256 * r + v[1]) \div 10>> \o DivTen(Tail(v), (256 * r + v[1]) % 10)

Reverse(v) == [i \in 1..Len(v) |-> v[Len(v) + 1 - i]]

RECURSIVE DecimalDigits(_)
\* the decimal digits of an unsigned pattern, most significant first
DecimalDigits(m) ==
    IF IsZero(m) THEN <<>>
    ELSE DecimalDigits(Reverse(SubSeq(DivTen(Reverse(m), 0), 1, Len(m))))
         \o <<DivTen(Reverse(m), 0)[Len(m) + 1]>>

\* the number of chars of i64::to_string
CharCount(p) ==
    IF IsZero(p) THEN 1
    ELSE Len(DecimalDigits(Magnitude(p))) + (IF IsNegative(p) THEN 1 ELSE 0)

\* input_1 + input_2 on i64
WrappingAdd(a, b) == SubSeq(AddFull(a, b), 1, 8)

AddOverflows(a, b) ==
    /\ IsNegative(a) = IsNegative(b)
    /\ IsNegative(WrappingAdd(a, b)) # IsNegative(a)

\* the low 4 bytes of the product, sign-extended: the product on i32 cells
WrappingMulNarrow(a, b) ==
    [i \in 1..8 |-> IF i <= 4 THEN WrappingMul(a, b)[i]
                    ELSE IF WrappingMul(a, b)[4] >= 128 THEN 255 ELSE 0]

Overflow == "arithmetic overflow"

----------------------------------------------------------------------------
(* The day_09 Program on 64-bit cells: the programs of tests::day09_q1_test1 *)
(* and tests::day09_q1_test2 and their variations, from the text the tests    *)
(* parse.  These programs use the opcodes 1, 2, 4 and 99 and leave            *)
(* relative_base at 0; the arms are those of run_program with the arithmetic  *)
(* of i64.  An address of 2^24 or more is not followed.                       *)

RECURSIVE DecimalOf(_)
DecimalOf(n) == IF n < 10 THEN <<n>> ELSE DecimalOf(n \div 10) \o <<n % 10>>

\* the text of a cell between two commas: an optional '-' and decimal digits
Text(n) == [neg |-> n < 0, digits |-> DecimalOf(IF n < 0 THEN -n ELSE n)]

\* 1125899906842624 = 2^50
TwoPow50Text == [neg |-> FALSE, digits |-> <<1, 1, 2, 5, 8, 9, 9, 9, 0, 6, 8, 4, 2, 6, 2, 4>>]

\* i64::MAX and the number after it
MaxI64Text ==
    [neg |-> FALSE, digits |-> <<9, 2, 2, 3, 3, 7, 2, 0, 3, 6, 8, 5, 4, 7, 7, 5, 8, 0, 7>>]
TooBigText ==
    [neg |-> FALSE, digits |-> <<9, 2, 2, 3, 3, 7, 2, 0, 3, 6, 8, 5, 4, 7, 7, 5, 8, 0, 8>>]

\* 3037000500: the least number whose square is no i64
RootText == [neg |-> FALSE, digits |-> <<3, 0, 3, 7, 0, 0, 0, 5, 0, 0>>]

Literals64 ==
    {TwoPow50Text, [TwoPow50Text EXCEPT !.neg = TRUE], MaxI64Text, TooBigText,
     [TooBigText EXCEPT !.neg = TRUE], Text(0), Text(34915192), Text(-7), Text(1)}

Factors64 ==
    {Text(34915192), Text(-34915192), RootText, [RootText EXCEPT !.neg = TRUE],
     Text(2), Text(0), Text(65536), TwoPow50Text, MaxI64Text}

ProgramTexts64 ==
    {<<Text(104), l, Text(99)>> : l \in Literals64}
    \cup {<<Text(104), l, TwoPow50Text>> : l \in Literals64}
    \cup {<<Text(4), Text(3), Text(99), l>> : l \in Literals64}
    \cup {<<Text(1102), a, b, Text(7), Text(4), Text(7), Text(99), Text(0)>> :
             a \in Factors64, b \in Factors64}
    \cup {<<Text(1101), a, b, Text(7), Text(4), Text(7), Text(99), Text(0)>> :
             a \in Factors64, b \in Factors64}
    \cup {<<Text(op), Text(7), Text(7), Text(7), Text(4), Text(7), Text(99), a>> :
             op \in {1, 2}, a \in Factors64}

\* .split(',').map(|s| s.parse().unwrap()).collect(): [ok, mem]
ParseProgram(text) ==
    [ok |-> \A i \in 1..Len(text) : ParseI64(text[i].neg, text[i].digits).ok,
     mem |-> [i \in 1..Len(text) |-> ParseI64(text[i].neg, text[i].digits).val]]

Zero64 == BytesOf(0, 8)

\* the decimal digits of a cell `as usize`
UsizeDigits(p) == IF IsZero(p) THEN <<0>> ELSE DecimalDigits(p)

\* number % 100
Opcode64(p) ==
    IF Len(UsizeDigits(p)) = 1 THEN UsizeDigits(p)[1]
    ELSE 10 * UsizeDigits(p)[Len(UsizeDigits(p)) - 1] + UsizeDigits(p)[Len(UsizeDigits(p))]

\* the reversed decimal digits of number / 100
Div100Rev64(p) ==
    IF Len(UsizeDigits(p)) <= 2 THEN <<0>>
    ELSE Reverse(SubSeq(UsizeDigits(p), 1, Len(UsizeDigits(p)) - 2))

InstructionNew64(p) ==
    IF ParamsLength(Opcode64(p)) = -1
    THEN DecodeErr(Opcode64(p), "Cannot read opcode", Opcode64(p))
    ELSE Parameters(Opcode64(p), Resize(Div100Rev64(p), ParamsLength(Opcode64(p))))

Grow64(mem, idx) ==
    IF Len(mem) < idx + 1 THEN mem \o [i \in 1..(idx + 1 - Len(mem)) |-> Zero64] ELSE mem

\* a cell `as usize` that the model follows as an address
IsAddress64(p) == IsSmall(p) /\ ~IsNegative(p)

ReadAt64(mem, p) ==
    IF ~IsAddress64(p) THEN [ok |-> FALSE, mem |-> mem, val |-> Zero64]
    ELSE [ok |-> TRUE, mem |-> Grow64(mem, FromI64(p)),
          val |-> Grow64(mem, FromI64(p))[FromI64(p) + 1]]

\* get_parameter with the Immediate arm cutting the value to 32 bits
GetParameter64Narrow(mem, rb, parameter_form, val) ==
    CASE parameter_form = "Position" -> ReadAt64(mem, val)
      [] parameter_form = "Immediate" ->
            [ok |-> TRUE, mem |-> mem,
             val |-> [i \in 1..8 |-> IF i <= 4 THEN val[i]
                                     ELSE IF val[4] >= 128 THEN 255 ELSE 0]]
      [] OTHER -> ReadAt64(mem, WrappingAdd(rb, val))

GetParameter64(mem, rb, parameter_form, val) ==
    CASE parameter_form = "Position" -> ReadAt64(mem, val)
      [] parameter_form = "Immediate" -> [ok |-> TRUE, mem |-> mem, val |-> val]
      [] OTHER -> ReadAt64(mem, WrappingAdd(rb, val))

SetParameter64(mem, p, val) ==
    IF ~IsAddress64(p) THEN [ok |-> FALSE, mem |-> mem]
    ELSE [ok |-> TRUE, mem |-> [Grow64(mem, FromI64(p)) EXCEPT ![FromI64(p) + 1] = val]]

GetOutputIdx64(mem, rb, idx, parameter_type) ==
    CASE parameter_type = "Position" ->
            [ok |-> TRUE, mem |-> Grow64(mem, idx), idx |-> Grow64(mem, idx)[idx + 1]]
      [] parameter_type = "Relative" ->
            [ok |-> TRUE, mem |-> Grow64(mem, idx),
             idx |-> WrappingAdd(Grow64(mem, idx)[idx + 1], rb)]
      [] OTHER -> [ok |-> FALSE, mem |-> Grow64(mem, idx), idx |-> Zero64]

FirstInput64(g1, pc, rb, ins) ==
    IF ~g1.ok THEN NoInputs(g1.mem, BadAddress)
    ELSE IF ~IndexOk(pc + 2, Len(g1.mem)) THEN NoInputs(g1.mem, OutOfBounds)
    ELSE SecondInput(g1, GetParameter64(g1.mem, rb, ins.parameters[2], g1.mem[pc + 3]))

TwoInputs64(mem, pc, rb, ins) ==
    IF ~PrintParamsOk(TRUE, mem, pc, 3) THEN NoInputs(mem, OutOfBounds)
    ELSE FirstInput64(GetParameter64(mem, rb, ins.parameters[1], mem[pc + 2]), pc, rb, ins)

StoreAt64(o, val, next, rb) ==
    IF ~o.ok THEN PanicOut(o.mem, next, rb, BadWriteMode)
    ELSE Stored(SetParameter64(o.mem, o.idx, val), next, rb)

StoreThird64(mem, pc, rb, ins, val) ==
    StoreAt64(GetOutputIdx64(mem, rb, pc + 3, ins.parameters[3]), val, AfterThreeParams(pc), rb)

\* the outcomes of arm 1: where input_1 + input_2 overflows, the panic of a build with
\* overflow checks and the wrapped sum of a build without
Arm1Tail64(t, pc, rb, ins) ==
    IF ~t.ok THEN {PanicOut(t.mem, pc, rb, t.msg)}
    ELSE {StoreThird64(t.mem, pc, rb, ins, WrappingAdd(t.a, t.b))}
         \cup (IF AddOverflows(t.a, t.b) THEN {PanicOut(t.mem, pc, rb, Overflow)} ELSE {})

Arm1For64(mem, pc, rb, ins) == Arm1Tail64(TwoInputs64(mem, pc, rb, ins), pc, rb, ins)

\* arm 2 on cells of 32 bits
Arm2Tail64Narrow(t, pc, rb, ins) ==
    IF ~t.ok THEN {PanicOut(t.mem, pc, rb, t.msg)}
    ELSE {StoreThird64(t.mem, pc, rb, ins, WrappingMulNarrow(t.a, t.b))}
         \cup (IF MulOverflows(t.a, t.b) THEN {PanicOut(t.mem, pc, rb, Overflow)} ELSE {})

\* the outcomes of arm 2, likewise for input_1 * input_2
Arm2Tail64(t, pc, rb, ins) ==
    IF ~t.ok THEN {PanicOut(t.mem, pc, rb, t.msg)}
    ELSE {StoreThird64(t.mem, pc, rb, ins, WrappingMul(t.a, t.b))}
         \cup (IF MulOverflows(t.a, t.b) THEN {PanicOut(t.mem, pc, rb, Overflow)} ELSE {})

Arm2For64(mem, pc, rb, ins) == Arm2Tail64(TwoInputs64(mem, pc, rb, ins), pc, rb, ins)

Arm4Tail64(g, pc, rb) ==
    IF ~g.ok THEN PanicOut(g.mem, pc, rb, BadAddress)
    ELSE Outcome("some", g.mem, AfterOneParam(pc), rb, g.val, "", FALSE)

Arm4For64(mem, pc, rb, ins) ==
    IF ~PrintParamsOk(TRUE, mem, pc, 1) THEN {PanicOut(mem, pc, rb, OutOfBounds)}
    ELSE {Arm4Tail64(GetParameter64(mem, rb, ins.parameters[1], mem[pc + 2]), pc, rb)}

\* the match on current_instruction.opcode, for the opcodes of these programs
Dispatch64(mem, pc, rb, ins) ==
    CASE ins.opcode = 1 -> Arm1For64(mem, pc, rb, ins)
      [] ins.opcode = 2 -> Arm2For64(mem, pc, rb, ins)
      [] ins.opcode = 4 -> Arm4For64(mem, pc, rb, ins)
      [] ins.opcode = 99 -> {Arm99(mem, pc, rb)}

Decoded64(mem, pc, rb, ins) ==
    IF ~ins.ok THEN {Outcome("err", mem, pc, rb, ins.x, ins.msg, FALSE)}
    ELSE Dispatch64(mem, pc, rb, ins)

\* the outcomes of the body of the loop
Exec64(mem, pc, rb) ==
    IF ~IndexOk(pc, Len(mem)) THEN {PanicOut(mem, pc, rb, OutOfBounds)}
    ELSE Decoded64(mem, pc, rb, InstructionNew64(mem[pc + 1]))

OpcodeAt64(mem, pc) ==
    IF ~IndexOk(pc, Len(mem)) THEN -1
    ELSE IF ~InstructionNew64(mem[pc + 1]).ok THEN -1
    ELSE InstructionNew64(mem[pc + 1]).opcode

\* the text of the program, not yet parsed
Init64 ==
    /\ memory = <<>>
    /\ pointer_idx = 0
    /\ relative_base = Zero64
    /\ first_input = 1
    /\ second_input = 1
    /\ current_input = 1
    /\ inputs = <<>>
    /\ status = "text"
    /\ result = NoResult
    /\ prev = NoResult
    /\ \E text \in ProgramTexts64 :
          hist = [text |-> text, init |-> <<>>, at |-> -1, out |-> <<>>]
    /\ OthersIdle

\* the text is parsed and Program::new(memory, 1, 1) takes the cells
Parse64 ==
    /\ status = "text"
    /\ ParseProgram(hist.text).ok
    /\ memory' = ParseProgram(hist.text).mem
    /\ hist' = [hist EXCEPT !.init = ParseProgram(hist.text).mem]
    /\ status' = "idle"
    /\ UNCHANGED <<others, pointer_idx, relative_base, first_input, second_input, current_input, inputs, result, prev>>

\* a cell that is no i64: the unwrap of the ParseIntError panics
ParseError64 ==
    /\ status = "text"
    /\ ~ParseProgram(hist.text).ok
    /\ status' = "panicked"
    /\ result' = [kind |-> "panic", val |-> 0, msg |-> "ParseIntError"]
    /\ prev' = result
    /\ UNCHANGED <<others, memory, pointer_idx, relative_base, first_input, second_input, current_input, inputs, hist>>

\* `while let Some(result) = program.run_program()`: the first call and a call after Some(_)
Call64 ==
    /\ status = "idle"
    /\ result.kind \in {"never", "some"}
    /\ status' = "running"
    /\ UNCHANGED <<others, memory, pointer_idx, relative_base, first_input, second_input, current_input, inputs, result, prev, hist>>

Iter64 == Exec64(memory, pointer_idx, relative_base)

Continues64(op) ==
    /\ OpcodeAt64(memory, pointer_idx) = op
    /\ \E r \in Iter64 :
          /\ r.kind = "continue"
          /\ memory' = r.mem
          /\ pointer_idx' = r.pc
          /\ relative_base' = r.rb
    /\ hist' = [hist EXCEPT !.at = pointer_idx]
    /\ UNCHANGED <<others, first_input, second_input, current_input, inputs, status, result, prev>>

Returns64(kind) ==
    /\ \E r \in Iter64 :
          /\ r.kind = kind
          /\ memory' = r.mem
          /\ pointer_idx' = r.pc
          /\ relative_base' = r.rb
          /\ result' = [kind |-> r.kind, val |-> r.val, msg |-> r.msg]
          /\ hist' = [hist EXCEPT !.at = pointer_idx,
                                  !.out = IF kind = "some" THEN Append(@, r.val) ELSE @]
    /\ prev' = result
    /\ status' = "idle"
    /\ UNCHANGED <<others, first_input, second_input, current_input, inputs>>

Add64 == status = "running" /\ Continues64(1)

Multiply64 == status = "running" /\ Continues64(2)

WriteOutput64 == status = "running" /\ Returns64("some")

Halt64 == status = "running" /\ Returns64("none")

DecodeError64 == status = "running" /\ Returns64("err")

Panic64 ==
    /\ status = "running"
    /\ \E r \in Iter64 :
          /\ r.kind = "panic"
          /\ result' = [kind |-> "panic", val |-> 0, msg |-> r.msg]
    /\ prev' = result
    /\ status' = "panicked"
    /\ hist' = [hist EXCEPT !.at = pointer_idx]
    /\ UNCHANGED <<others, memory, pointer_idx, relative_base, first_input, second_input, current_input, inputs>>

Next64 ==
    \/ Parse64
    \/ ParseError64
    \/ Call64
    \/ Add64
    \/ Multiply64
    \/ WriteOutput64
    \/ Halt64
    \/ DecodeError64
    \/ Panic64

Spec64 == Init64 /\ [][Next64]_vars

----------------------------------------------------------------------------
(* day_07 Permutations: the iterator that get_permutations collects.        *)

\* the sizes get_permutations is called with (_q1 and _q2 call it with 5)
MaxSize == 5

\* no Intcode machine takes part
NoMachine ==
    /\ memory = <<>>
    /\ pointer_idx = 0
    /\ relative_base = 0
    /\ first_input = 0
    /\ second_input = 0
    /\ current_input = 1
    /\ inputs = <<>>
    /\ status = "idle"
    /\ result = NoResult
    /\ prev = NoResult
    /\ hist = NoHist(<<>>)

\* Vec::swap(a, b), indices from 0
Swap(v, a, b) == [v EXCEPT ![a + 1] = v[b + 1], ![b + 1] = v[a + 1]]

\* the partner of the swap without the parity of i
SwapPartnerAnyParity(i, s) == s

\* (self.i & 1) * self.swaps[self.i]
SwapPartner(i, s) == (i % 2) * s

RECURSIVE Advance(_, _)
\* the loop of next: it returns None (none) or breaks at an i with swaps[i] < i
Advance(swaps, i) ==
    IF i >= Len(swaps) THEN [none |-> TRUE, swaps |-> swaps, i |-> i]
    ELSE IF swaps[i + 1] < i THEN [none |-> FALSE, swaps |-> swaps, i |-> i]
    ELSE Advance([swaps EXCEPT ![i + 1] = 0], i + 1)

\* after the loop: the swap, swaps[i] += 1, i = 1, Some(idxs.clone())
Swapped(idxs, a) ==
    IF a.none THEN [none |-> TRUE, idxs |-> idxs, swaps |-> a.swaps, i |-> a.i]
    ELSE [none |-> FALSE,
          idxs |-> Swap(idxs, a.i, SwapPartner(a.i, a.swaps[a.i + 1])),
          swaps |-> [a.swaps EXCEPT ![a.i + 1] = @ + 1],
          i |-> 1]

\* Permutations::next: [none, idxs, swaps, i]
PermutationsNext(idxs, swaps, i) ==
    IF i > 0 THEN Swapped(idxs, Advance(swaps, i))
    ELSE [none |-> FALSE, idxs |-> idxs, swaps |-> swaps, i |-> 1]

\* get_permutations(size): the iterator as constructed, nothing collected yet
InitPermutations ==
    /\ NoMachine
    /\ FurtherIdle
    /\ \E size \in 0..MaxSize :
          perms = [status |-> "collecting", size |-> size,
                   idxs |-> [k \in 1..size |-> k - 1], swaps |-> [k \in 1..size |-> 0],
                   i |-> 0, collected |-> <<>>]
    /\ driver = Unused
    /\ jupiter = Unused
    /\ droid = Unused

\* collect() calls next and receives Some(permutation)
NextSome ==
    /\ perms.status = "collecting"
    /\ ~PermutationsNext(perms.idxs, perms.swaps, perms.i).none
    /\ perms' = [perms EXCEPT
                    !.idxs = PermutationsNext(perms.idxs, perms.swaps, perms.i).idxs,
                    !.swaps = PermutationsNext(perms.idxs, perms.swaps, perms.i).swaps,
                    !.i = PermutationsNext(perms.idxs, perms.swaps, perms.i).i,
                    !.collected = Append(@, PermutationsNext(perms.idxs, perms.swaps, perms.i).idxs)]
    /\ UNCHANGED <<further, machine, driver, jupiter, droid>>

\* collect() calls next and receives None: the Vec is complete
NextNone ==
    /\ perms.status = "collecting"
    /\ PermutationsNext(perms.idxs, perms.swaps, perms.i).none
    /\ perms' = [perms EXCEPT
                    !.status = "collected",
                    !.swaps = PermutationsNext(perms.idxs, perms.swaps, perms.i).swaps,
                    !.i = PermutationsNext(perms.idxs, perms.swaps, perms.i).i]
    /\ UNCHANGED <<further, machine, driver, jupiter, droid>>

NextPermutations == NextSome \/ NextNone

\* collect() keeps calling next until it receives None
SpecPermutations ==
    InitPermutations /\ [][NextPermutations]_vars /\ WF_vars(NextPermutations)

----------------------------------------------------------------------------
(* day_07 _q1 and _q2: the amplifier chain and the feedback loop.  An       *)
(* action is one pass through a loop of the function; a call of             *)
(* run_program inside it runs the loop of the Amplifier to its return.      *)

\* amp_count
AmpCount == 5

\* the iterations of one run_program call that the model follows
MaxSteps == 200

RECURSIVE RunProgram07(_, _, _, _, _, _)
RECURSIVE Resumed07(_, _, _, _, _)

\* Amplifier::run_program from (mem, pc) to its return: [kind, val, msg, mem, pc, cur]
RunProgram07(mem, pc, first, second, cur, fuel) ==
    IF fuel = 0
    THEN [kind |-> "unfollowed", val |-> 0, msg |-> "", mem |-> mem, pc |-> pc, cur |-> cur]
    ELSE Resumed07(Exec07(mem, pc, GetInput07(first, second, cur)), first, second, cur, fuel)

Resumed07(r, first, second, cur, fuel) ==
    IF r.kind = "continue"
    THEN RunProgram07(r.mem, r.pc, first, second,
                      IF r.popped THEN GetInput07(first, second, cur).next ELSE cur, fuel - 1)
    ELSE [kind |-> r.kind, val |-> r.val, msg |-> r.msg, mem |-> r.mem, pc |-> r.pc,
          cur |-> cur]

\* get_permutations(size) as the for loops consume it: the Vec holds what the successive
\* calls of next returned, so the loop is at the vector of the last call (it.idxs) and is
\* over when next returns None
GetPermutations(size) ==
    [none |-> FALSE, idxs |-> [k \in 1..size |-> k - 1], swaps |-> [k \in 1..size |-> 0],
     i |-> 0]

\* the next element of the Vec
NextPermutation(it) == PermutationsNext(it.idxs, it.swaps, it.i)

\* the programs of tests::day07_q1_test1, test2, test3
Q1Test1 == <<3, 15, 3, 16, 1002, 16, 10, 16, 1, 16, 15, 15, 4, 15, 99, 0, 0>>
Q1Test2 ==
    <<3, 23, 3, 24, 1002, 24, 10, 24, 1002, 23, -1, 23, 101, 5, 23, 23, 1, 24, 23, 23, 4, 23,
      99, 0, 0>>
Q1Test3 ==
    <<3, 31, 3, 32, 1002, 32, 10, 32, 1001, 31, -2, 31, 1007, 31, 0, 33, 1002, 33, 7, 33, 1,
      33, 31, 31, 1, 32, 31, 31, 4, 31, 99, 0, 0, 0>>

\* the programs of tests::day07_q2_test1, test2
Q2Test1 ==
    <<3, 26, 1001, 26, -4, 26, 3, 27, 1002, 27, 2, 27, 1, 27, 26, 27, 4, 27, 1001, 28, -1, 28,
      1005, 28, 6, 99, 0, 0, 5>>
Q2Test2 ==
    <<3, 52, 1001, 52, -5, 52, 3, 53, 1, 52, 56, 54, 1007, 54, 5, 55, 1005, 55, 26, 1001, 54,
      -5, 54, 1105, 1, 12, 1, 53, 54, 53, 1008, 54, 0, 55, 1001, 55, 1, 55, 2, 53, 55, 53, 4,
      53, 1001, 56, -1, 56, 1005, 56, 6, 99, 0, 0, 0, 0, 10>>

\* further programs: the signal passed on unchanged; the phase subtracted from the signal
\* (negative signals); no output before the halt; an illegal opcode
PassOn == <<3, 0, 3, 1, 4, 1, 99>>
Subtract ==
    <<3, 19, 3, 20, 1002, 19, -1, 19, 1, 19, 20, 20, 1001, 20, -10, 20, 4, 20, 99, 0, 0>>
NoOutput == <<3, 0, 99>>
Illegal == <<3, 0, 77>>

ProgramsQ1 == {Q1Test1, Q1Test2, Q1Test3, PassOn, Subtract, NoOutput, Illegal}
ProgramsQ2 == {Q2Test1, Q2Test2, PassOn, Subtract, NoOutput, Illegal}

\* the locals of _q1 / _q2 before the for loop; k counts the permutations taken
DriverInit(fn, mem) ==
    [fn |-> fn, status |-> "for", memory |-> mem, permutations |-> GetPermutations(AmpCount),
     k |-> 0, orderings |-> <<>>, max_signal |-> 0, input |-> 0, stage |-> 0,
     amp_idx |-> 0, output_signal |-> 0, amplifiers |-> <<>>,
     ret |-> 0, msg |-> "", last_e |-> <<>>, signals |-> <<>>, resumes |-> <<>>]

InitQ1 ==
    /\ NoMachine
    /\ FurtherIdle
    /\ perms = Unused
    /\ \E mem \in ProgramsQ1 : driver = DriverInit("q1", mem)
    /\ jupiter = Unused
    /\ droid = Unused

\* Amplifier::new(memory, first_input, second_input)
AmplifierNew(mem, first, second) ==
    [memory |-> mem, pointer_idx |-> 0, first_input |-> first, second_input |-> second,
     current_input |-> 1]

\* amp.run_program() on an Amplifier
RunAmplifier(amp) ==
    RunProgram07(amp.memory, amp.pointer_idx, amp.first_input, amp.second_input,
                 amp.current_input, MaxSteps)

\* the permutation the for loop is in
Permutation == driver.permutations.idxs

\* `for permutation in permutations`: the next permutation, `let mut input: i32 = 0`
BeginOrderingQ1 ==
    /\ driver.fn = "q1" /\ driver.status = "for"
    /\ ~NextPermutation(driver.permutations).none
    /\ driver' = [driver EXCEPT !.status = "stages", !.k = @ + 1, !.input = 0, !.stage = 0,
                                !.permutations = NextPermutation(@),
                                !.orderings = Append(@, NextPermutation(driver.permutations).idxs)]
    /\ UNCHANGED <<further, machine, perms, jupiter, droid>>

\* the stage of _q1 the inner loop is at: a fresh Amplifier on the phase and the input
StageRun ==
    RunAmplifier(AmplifierNew(driver.memory, Permutation[driver.stage + 1], driver.input))

\* `input = amp.run_program()?.unwrap()` with Ok(Some(v))
Stage ==
    /\ driver.fn = "q1" /\ driver.status = "stages"
    /\ driver.stage < Len(Permutation)
    /\ StageRun.kind = "some"
    /\ driver' = [driver EXCEPT !.input = StageRun.val, !.stage = @ + 1]
    /\ UNCHANGED <<further, machine, perms, jupiter, droid>>

\* the same with Err (returned by ?), with Ok(None) (unwrap panics) or with a panic
StageFails ==
    /\ driver.fn = "q1" /\ driver.status = "stages"
    /\ driver.stage < Len(Permutation)
    /\ StageRun.kind \in {"err", "none", "panic"}
    /\ driver' = [driver EXCEPT !.status = IF StageRun.kind = "err" THEN "err" ELSE "panicked",
                                !.msg = StageRun.msg]
    /\ UNCHANGED <<further, machine, perms, jupiter, droid>>

\* after the inner loop: `if input > max_signal { max_signal = input; }`
EndOrderingQ1 ==
    /\ driver.fn = "q1" /\ driver.status = "stages"
    /\ driver.stage = Len(Permutation)
    /\ driver' = [driver EXCEPT
                     !.status = "for",
                     !.max_signal = IF driver.input > @ THEN driver.input ELSE @,
                     !.signals = Append(@, driver.input)]
    /\ UNCHANGED <<further, machine, perms, jupiter, droid>>

\* Ok(max_signal as usize)
ReturnMax ==
    /\ driver.status = "for"
    /\ NextPermutation(driver.permutations).none
    /\ driver' = [driver EXCEPT !.status = "returned", !.ret = driver.max_signal]
    /\ UNCHANGED <<further, machine, perms, jupiter, droid>>

NextQ1 ==
    \/ BeginOrderingQ1
    \/ Stage
    \/ StageFails
    \/ EndOrderingQ1
    \/ ReturnMax

SpecQ1 == InitQ1 /\ [][NextQ1]_vars

InitQ2 ==
    /\ NoMachine
    /\ FurtherIdle
    /\ perms = Unused
    /\ \E mem \in ProgramsQ2 : driver = DriverInit("q2", mem)
    /\ jupiter = Unused
    /\ droid = Unused

\* `for permutation in permutations`: the locals and the five Amplifiers of the permutation
BeginOrderingQ2 ==
    /\ driver.fn = "q2" /\ driver.status = "for"
    /\ ~NextPermutation(driver.permutations).none
    /\ driver' = [driver EXCEPT
                     !.status = "loop", !.k = @ + 1, !.amp_idx = 0, !.output_signal = 0,
                     !.input = 0,
                     !.permutations = NextPermutation(@),
                     !.orderings = Append(@, NextPermutation(driver.permutations).idxs),
                     !.amplifiers =
                         [n \in 1..AmpCount |->
                             AmplifierNew(driver.memory,
                                          NextPermutation(driver.permutations).idxs[n] + 5, 0)],
                     !.last_e = <<>>, !.resumes = <<>>]
    /\ UNCHANGED <<further, machine, perms, jupiter, droid>>

\* amp.set_input(input)
AmpSetInput(amp, input) == [amp EXCEPT !.second_input = input]

\* the Amplifier after run_program returned r
AmpAfter(amp, r) ==
    [amp EXCEPT !.memory = r.mem, !.pointer_idx = r.pc, !.current_input = r.cur]

\* the resume the loop of _q2 is at
ResumeRun == RunAmplifier(AmpSetInput(driver.amplifiers[driver.amp_idx + 1], driver.input))

\* a pass of the loop in which run_program returns Some(output_value)
Resume ==
    /\ driver.fn = "q2" /\ driver.status = "loop"
    /\ ResumeRun.kind = "some"
    /\ driver' = [driver EXCEPT
                     !.amplifiers[driver.amp_idx + 1] =
                         AmpAfter(AmpSetInput(@, driver.input), ResumeRun),
                     !.input = ResumeRun.val,
                     !.output_signal = IF driver.amp_idx = 4 THEN ResumeRun.val ELSE @,
                     !.amp_idx = (@ + 1) % 5,
                     !.last_e = IF driver.amp_idx = Len(driver.amplifiers) - 1
                                THEN <<ResumeRun.val>> ELSE @,
                     !.resumes = Append(@, [amp |-> driver.amp_idx, signal |-> driver.input,
                                            out |-> ResumeRun.val])]
    /\ UNCHANGED <<further, machine, perms, jupiter, droid>>

\* a pass in which run_program returns None: the maximum is updated and the loop left
ResumeHalts ==
    /\ driver.fn = "q2" /\ driver.status = "loop"
    /\ ResumeRun.kind = "none"
    /\ driver' = [driver EXCEPT
                     !.status = "for",
                     !.amplifiers[driver.amp_idx + 1] =
                         AmpAfter(AmpSetInput(@, driver.input), ResumeRun),
                     !.max_signal = IF driver.output_signal > @ THEN driver.output_signal ELSE @,
                     !.signals = Append(@, driver.last_e)]
    /\ UNCHANGED <<further, machine, perms, jupiter, droid>>

\* a pass in which run_program returns Err (returned by ?) or panics
ResumeFails ==
    /\ driver.fn = "q2" /\ driver.status = "loop"
    /\ ResumeRun.kind \in {"err", "panic"}
    /\ driver' = [driver EXCEPT !.status = IF ResumeRun.kind = "err" THEN "err" ELSE "panicked",
                                !.msg = ResumeRun.msg]
    /\ UNCHANGED <<further, machine, perms, jupiter, droid>>

NextQ2 ==
    \/ BeginOrderingQ2
    \/ Resume
    \/ ResumeHalts
    \/ ResumeFails
    \/ ReturnMax

SpecQ2 == InitQ2 /\ [][NextQ2]_vars

----------------------------------------------------------------------------
(* day_12: Jupiter1D, period and _q2 *)

\* the most moons of a system drawn at large, and the largest coordinate of one
MaxMoons == 2
MaxPos == 1

\* the passes of the loop of period that are followed
MaxT == 60

\* i32::signum
Signum(n) == IF n > 0 THEN 1 ELSE IF n < 0 THEN -1 ELSE 0

\* Moon1D::new(position)
Moon1DNew(position) == [position |-> position, velocity |-> 0]

\* Moon1D::gravity_from(&self, other)
GravityFrom(self, other) == Signum(other.position - self.position)

RECURSIVE GravityFromAll(_, _, _)
\* the inner loop of add_gravity_effect: the pulls of other_moons[k..] on the moon, summed
GravityFromAll(moon, other_moons, k) ==
    IF k > Len(other_moons) THEN 0
    ELSE GravityFrom(moon, other_moons[k]) + GravityFromAll(moon, other_moons, k + 1)

\* Jupiter1D::add_gravity_effect: every moon against the clone taken on entry
AddGravityEffect(moons) ==
    [n \in 1..Len(moons) |->
        [moons[n] EXCEPT !.velocity = @ + GravityFromAll(moons[n], moons, 1)]]

\* Jupiter1D::move_moons
MoveMoons(moons) ==
    [n \in 1..Len(moons) |-> [moons[n] EXCEPT !.position = @ + moons[n].velocity]]

\* Jupiter1D::increment_time
IncrementTime(moons) == MoveMoons(AddGravityEffect(moons))

\* Jupiter1D::new(coords)
Jupiter1DNew(coords) == [n \in 1..Len(coords) |-> Moon1DNew(coords[n])]

\* moons.iter().map(|&moon| moon.position).collect()
PositionsOf(moons) == [n \in 1..Len(moons) |-> moons[n].position]

RECURSIVE Gcd(_, _)
\* gcd(m, n)
Gcd(m, n) == IF m = 0 THEN n ELSE Gcd(n % m, m)

\* lcm(m, n)
Lcm(m, n) == (m * n) \div Gcd(m, n)

\* the first test system of _q2, parsed
MoonsTest1 ==
    <<[x |-> -1, y |-> 0, z |-> 2], [x |-> 2, y |-> -10, z |-> -7],
      [x |-> 4, y |-> -8, z |-> 8], [x |-> 3, y |-> 5, z |-> -1]>>

\* three moons that differ in y and in z only
MoonsFlat ==
    <<[x |-> 0, y |-> -2, z |-> -2], [x |-> 0, y |-> -1, z |-> -1], [x |-> 0, y |-> 2, z |-> 2]>>

\* the systems of at most MaxMoons moons with coordinates within MaxPos
SmallSystems ==
    UNION {[1..n -> [x : (-MaxPos)..MaxPos, y : (-MaxPos)..MaxPos, z : (-MaxPos)..MaxPos]] :
              n \in 0..MaxMoons}

Systems == SmallSystems \cup {MoonsTest1, MoonsFlat}

\* initial_x, initial_y, initial_z of _q2
InitialVals(coords, axis) ==
    [n \in 1..Len(coords) |->
        IF axis = 1 THEN coords[n].x ELSE IF axis = 2 THEN coords[n].y ELSE coords[n].z]

\* _q2 on the parsed moons, before the first period_1d
InitMoons ==
    /\ NoMachine
    /\ FurtherIdle
    /\ perms = Unused
    /\ driver = Unused
    /\ droid = Unused
    /\ \E coords \in Systems :
          jupiter = [status |-> "q2", coords |-> coords, axis |-> 1, moons |-> <<>>,
                     initial_positions |-> <<>>, t |-> 0, periods |-> <<>>, ret |-> 0]

\* period_1d(initial_vals) up to the loop of period: the Jupiter1D, initial_positions, t = 0
Period1D ==
    /\ jupiter.status = "q2"
    /\ jupiter.axis <= 3
    /\ jupiter' = [jupiter EXCEPT
                      !.status = "loop",
                      !.moons = Jupiter1DNew(InitialVals(jupiter.coords, jupiter.axis)),
                      !.initial_positions = InitialVals(jupiter.coords, jupiter.axis),
                      !.t = 0]
    /\ UNCHANGED <<further, machine, perms, driver, droid>>

\* a pass of the loop of period that does not break
PeriodPass ==
    /\ jupiter.status = "loop"
    /\ jupiter.t < MaxT
    /\ PositionsOf(IncrementTime(jupiter.moons)) # jupiter.initial_positions
    /\ jupiter' = [jupiter EXCEPT !.t = @ + 1, !.moons = IncrementTime(@)]
    /\ UNCHANGED <<further, machine, perms, driver, droid>>

\* the pass that breaks: period returns Ok(t+1) to _q2
PeriodBreak ==
    /\ jupiter.status = "loop"
    /\ jupiter.t < MaxT
    /\ PositionsOf(IncrementTime(jupiter.moons)) = jupiter.initial_positions
    /\ jupiter' = [jupiter EXCEPT !.status = "q2", !.t = @ + 1, !.moons = IncrementTime(@),
                                  !.periods = Append(@, (jupiter.t + 1) + 1),
                                  !.axis = @ + 1]
    /\ UNCHANGED <<further, machine, perms, driver, droid>>

\* Ok(lcm(x_period, lcm(y_period, z_period)))
ReturnLcm ==
    /\ jupiter.status = "q2"
    /\ jupiter.axis = 4
    /\ jupiter' = [jupiter EXCEPT
                      !.status = "returned",
                      !.ret = Lcm(jupiter.periods[1], Lcm(jupiter.periods[2], jupiter.periods[3]))]
    /\ UNCHANGED <<further, machine, perms, driver, droid>>

NextMoons ==
    \/ Period1D
    \/ PeriodPass
    \/ PeriodBreak
    \/ ReturnLcm

SpecMoons == InitMoons /\ [][NextMoons]_vars

----------------------------------------------------------------------------
(* day_15: the Droid, find_leak and time_for_oxygen_spread *)

\* the mazes drawn at large have their cells in 0..MaxX by 0..MaxY
MaxX == 2
MaxY == 1

\* Coordinate::new(x, y)
Coordinate(x, y) == [x |-> x, y |-> y]

\* Coordinate::neighbours
Neighbours(c) ==
    <<Coordinate(c.x, c.y + 1), Coordinate(c.x - 1, c.y),
      Coordinate(c.x + 1, c.y), Coordinate(c.x, c.y - 1)>>

\* the order of Coordinate, which is the order of the keys of a BTreeMap: by (y, x)
CoordinateLess(a, b) == a.y < b.y \/ (a.y = b.y /\ a.x < b.x)

\* BTreeMap::insert(k, v)
Insert(map, k, v) == [c \in (DOMAIN map) \cup {k} |-> IF c = k THEN v ELSE map[c]]

\* self.floor_map.get(&coord) == Some(&SquareType::Open)
IsOpen(floor_map, coord) == coord \in DOMAIN floor_map /\ floor_map[coord] = "Open"

\* one neighbour in the for loop of shortest_path_from_to, c being the coordinate popped
BfsNeighbour(s, c, neighbour) ==
    IF neighbour \in s.visited THEN s
    ELSE [s EXCEPT
             !.queue = IF neighbour \in s.todo_set THEN @ ELSE Append(@, neighbour),
             !.todo_set = @ \cup {neighbour},
             !.d = IF neighbour \notin DOMAIN s.d
                      \/ 1 + (IF c \in DOMAIN s.d THEN s.d[c] ELSE 0) < s.d[neighbour]
                   THEN Insert(s.d, neighbour, 1 + (IF c \in DOMAIN s.d THEN s.d[c] ELSE 0))
                   ELSE s.d]

RECURSIVE BfsNeighbours(_, _, _, _)
\* the for loop over the Open neighbours of c, from the k-th neighbour on
BfsNeighbours(s, c, k, floor_map) ==
    IF k > 4 THEN s
    ELSE BfsNeighbours(IF IsOpen(floor_map, Neighbours(c)[k])
                       THEN BfsNeighbour(s, c, Neighbours(c)[k]) ELSE s,
                       c, k + 1, floor_map)

\* the state after pop_front: c removed from the queue and todo_set, added to visited
BfsPopped(s) ==
    [s EXCEPT !.queue = Tail(@), !.todo_set = @ \ {Head(s.queue)},
              !.visited = @ \cup {Head(s.queue)}]

RECURSIVE Bfs(_, _, _)
\* `while let Some(c) = queue.pop_front()`, breaking at c == to: the distances d
Bfs(s, to, floor_map) ==
    IF s.queue = <<>> \/ Head(s.queue) = to THEN s.d
    ELSE Bfs(BfsNeighbours(BfsPopped(s), Head(s.queue), 1, floor_map), to, floor_map)

\* d, queue, todo_set and visited before the while loop
BfsStart(from) ==
    [d |-> Insert(<<>>, from, 0), queue |-> <<from>>, todo_set |-> {}, visited |-> {}]

\* neighbours().into_iter().filter(|&c| d.contains_key(&c))
WithDistance(d, c) == SelectSeq(Neighbours(c), LAMBDA n : n \in DOMAIN d)

\* Iterator::min_by_key: the first of the least
MinByKey(d, s) ==
    s[CHOOSE i \in 1..Len(s) :
         \A j \in 1..Len(s) : d[s[i]] < d[s[j]] \/ (d[s[i]] = d[s[j]] /\ i <= j)]

RECURSIVE PathBack(_, _, _, _)
\* the loop that builds path_to_take from `to` back to `from`, and the reverse
PathBack(d, current_position, from, path_to_take) ==
    IF WithDistance(d, current_position) = <<>>
    THEN [ok |-> FALSE, path |-> <<>>, msg |-> "Cannot find any neighbours"]
    ELSE IF MinByKey(d, WithDistance(d, current_position)) = from
    THEN [ok |-> TRUE, path |-> Reverse(Append(path_to_take, from)), msg |-> ""]
    ELSE PathBack(d, MinByKey(d, WithDistance(d, current_position)), from,
                  Append(path_to_take, MinByKey(d, WithDistance(d, current_position))))

\* Droid::shortest_path_from_to(from, to)
ShortestPathFromTo(floor_map, from, to) ==
    PathBack(Bfs(BfsStart(from), to, floor_map), to, from, <<to>>)

\* Direction::to_coordinate
ToCoordinate(direction) ==
    CASE direction = "Up" -> Coordinate(0, 1)
      [] direction = "Down" -> Coordinate(0, -1)
      [] direction = "Left" -> Coordinate(-1, 0)
      [] direction = "Right" -> Coordinate(1, 0)

\* Coordinate + Coordinate
Plus(a, b) == Coordinate(a.x + b.x, a.y + b.y)

\* the match of convert_path_to_directions on a difference
DirectionOf(x, y) ==
    CASE x = 1 /\ y = 0 -> "Right"
      [] x = -1 /\ y = 0 -> "Left"
      [] x = 0 /\ y = 1 -> "Up"
      [] x = 0 /\ y = -1 -> "Down"
      [] OTHER -> "Invalid difference"

\* convert_path_to_directions(path)
ConvertPathToDirections(path) ==
    [k \in 1..(Len(path) - 1) |->
        DirectionOf(path[k + 1].x - path[k].x, path[k + 1].y - path[k].y)]

\* the unknown neighbours of a coordinate, in the order of neighbours
UnknownNeighbours(floor_map, c) ==
    SelectSeq(Neighbours(c), LAMBDA n : n \notin DOMAIN floor_map)

\* the Open coordinates of the map that have an unknown neighbour
Frontier(floor_map) ==
    {c \in DOMAIN floor_map :
        floor_map[c] = "Open" /\ UnknownNeighbours(floor_map, c) # <<>>}

\* next_potential_target: the first unknown neighbour of an Open square, the squares
\* taken in the order of the map
NextPotentialTarget(floor_map) ==
    IF Frontier(floor_map) = {} THEN <<>>
    ELSE <<Head(UnknownNeighbours(floor_map,
              CHOOSE c \in Frontier(floor_map) :
                  \A o \in Frontier(floor_map) : o = c \/ CoordinateLess(c, o)))>>

\* what the maze program answers to a movement command: 0 and the droid stays where a
\* wall is, 2 where the oxygen system is, 1 elsewhere
ProgramOutput(program, direction) ==
    IF Plus(program.position, ToCoordinate(direction)) \notin program.cells THEN 0
    ELSE IF <<Plus(program.position, ToCoordinate(direction))>> = program.system THEN 2
    ELSE 1

\* the maze program after the command
ProgramAfter(program, direction) ==
    IF ProgramOutput(program, direction) = 0 THEN program
    ELSE [program EXCEPT !.position = Plus(@, ToCoordinate(direction))]

\* the cells of the mazes drawn at large, the origin apart
Region == {Coordinate(x, y) : x \in 0..MaxX, y \in 0..MaxY} \ {Coordinate(0, 0)}

\* a maze program: the cells that are no wall, the oxygen system (if any), the droid
Maze(cells, system) ==
    [cells |-> cells \cup {Coordinate(0, 0)}, system |-> system, position |-> Coordinate(0, 0)]

SmallMazes ==
    {Maze(cells, system) :
        cells \in SUBSET Region, system \in {<<>>} \cup {<<c>> : c \in Region}}

\* the oxygen system in the middle of a ring of open cells
RingMaze ==
    Maze({Coordinate(x, y) : x \in 0..2, y \in -1..1}, <<Coordinate(1, 0)>>)

\* a corridor around a wall with the oxygen system at its end
CorridorMaze ==
    Maze({Coordinate(0, 1), Coordinate(0, 2), Coordinate(1, 2), Coordinate(2, 2),
          Coordinate(2, 1), Coordinate(2, 0)}, <<Coordinate(2, 0)>>)

Mazes ==
    {m \in SmallMazes : m.system = <<>> \/ m.system[1] \in m.cells}
        \cup {RingMaze, CorridorMaze}

\* Droid::new(memory), and whether _q1 or _q2 drives it
InitDroid ==
    /\ NoMachine
    /\ FurtherIdle
    /\ perms = Unused
    /\ driver = Unused
    /\ jupiter = Unused
    /\ \E program \in Mazes : \E stop_on_leak \in BOOLEAN :
          droid = [status |-> "new", stop_on_leak |-> stop_on_leak, program |-> program,
                   floor_map |-> <<>>, leak_location |-> Coordinate(0, 0),
                   current_coord |-> Coordinate(0, 0), current_target |-> Coordinate(0, 0),
                   directions |-> <<>>, oxygen_squares |-> {}, t |-> 0, ret |-> 0,
                   msg |-> ""]

\* find_leak up to 'main: the origin is Open, the target is the origin
FindLeak ==
    /\ droid.status = "new"
    /\ droid' = [droid EXCEPT !.status = "main",
                              !.floor_map = Insert(@, droid.current_coord, "Open"),
                              !.current_target = Coordinate(0, 0)]
    /\ UNCHANGED <<further, machine, perms, driver, jupiter>>

\* the target after the head of 'main, where there is one
TargetChosen ==
    IF droid.current_target \in DOMAIN droid.floor_map
    THEN NextPotentialTarget(droid.floor_map)[1]
    ELSE droid.current_target

\* the head of 'main up to the for loop: the next target, the path to it, its directions
ChooseTarget ==
    /\ droid.status = "main"
    /\ droid.current_target \in DOMAIN droid.floor_map =>
          NextPotentialTarget(droid.floor_map) # <<>>
    /\ droid' =
          IF ~ShortestPathFromTo(droid.floor_map, droid.current_coord, TargetChosen).ok
          THEN [droid EXCEPT
                   !.status = "err", !.current_target = TargetChosen,
                   !.msg = ShortestPathFromTo(droid.floor_map, droid.current_coord,
                                              TargetChosen).msg]
          ELSE IF \E k \in 1..(Len(ShortestPathFromTo(droid.floor_map, droid.current_coord,
                                                       TargetChosen).path) - 1) :
                      ConvertPathToDirections(
                          ShortestPathFromTo(droid.floor_map, droid.current_coord,
                                             TargetChosen).path)[k] = "Invalid difference"
          THEN [droid EXCEPT !.status = "err", !.current_target = TargetChosen,
                             !.msg = "Invalid difference"]
          ELSE [droid EXCEPT
                   !.status = "for", !.current_target = TargetChosen,
                   !.directions = ConvertPathToDirections(
                       ShortestPathFromTo(droid.floor_map, droid.current_coord,
                                          TargetChosen).path)]
    /\ UNCHANGED <<further, machine, perms, driver, jupiter>>

\* the head of 'main with no target left: return Ok(())
FindLeakReturns ==
    /\ droid.status = "main"
    /\ droid.current_target \in DOMAIN droid.floor_map
    /\ NextPotentialTarget(droid.floor_map) = <<>>
    /\ droid' = [droid EXCEPT !.status = "mapped"]
    /\ UNCHANGED <<further, machine, perms, driver, jupiter>>

\* the square the direction at the head of the for loop leads to
Ahead == Plus(droid.current_coord, ToCoordinate(Head(droid.directions)))

\* the status after a direction that moved the droid: the for loop, or 'main at its end
AfterMove == IF Tail(droid.directions) = <<>> THEN "main" ELSE "for"

\* a direction of the for loop answered 0: the square is a Wall, `continue 'main`
HitWall ==
    /\ droid.status = "for"
    /\ ProgramOutput(droid.program, Head(droid.directions)) = 0
    /\ droid' = [droid EXCEPT !.status = "main", !.directions = <<>>,
                              !.program = ProgramAfter(@, Head(droid.directions)),
                              !.floor_map = Insert(@, Ahead, "Wall")]
    /\ UNCHANGED <<further, machine, perms, driver, jupiter>>

\* answered 1: the square is Open and the droid is on it
Moved ==
    /\ droid.status = "for"
    /\ ProgramOutput(droid.program, Head(droid.directions)) = 1
    /\ droid' = [droid EXCEPT !.status = AfterMove, !.directions = Tail(@),
                              !.program = ProgramAfter(@, Head(droid.directions)),
                              !.floor_map = Insert(@, Ahead, "Open"),
                              !.current_coord = Ahead]
    /\ UNCHANGED <<further, machine, perms, driver, jupiter>>

\* answered 2: the square is the System, the leak is there and so is the droid;
\* `break 'main` and Ok(()) with stop_on_leak
FoundLeak ==
    /\ droid.status = "for"
    /\ ProgramOutput(droid.program, Head(droid.directions)) = 2
    /\ droid' = [droid EXCEPT
                    !.status = IF droid.stop_on_leak THEN "found" ELSE AfterMove,
                    !.directions = IF droid.stop_on_leak THEN <<>> ELSE Tail(@),
                    !.program = ProgramAfter(@, Head(droid.directions)),
                    !.floor_map = Insert(@, Ahead, "System"),
                    !.leak_location = Ahead,
                    !.current_coord = Ahead]
    /\ UNCHANGED <<further, machine, perms, driver, jupiter>>

\* _q1 after find_leak(true): dist_to_leak, the steps from the origin to the leak
DistToLeak ==
    /\ droid.stop_on_leak
    /\ droid.status \in {"found", "mapped"}
    /\ droid' =
          IF ShortestPathFromTo(droid.floor_map, Coordinate(0, 0), droid.leak_location).ok
          THEN [droid EXCEPT
                   !.status = "returned",
                   !.ret = Len(ShortestPathFromTo(droid.floor_map, Coordinate(0, 0),
                                                  droid.leak_location).path) - 1]
          ELSE [droid EXCEPT
                   !.status = "err",
                   !.msg = ShortestPathFromTo(droid.floor_map, Coordinate(0, 0),
                                              droid.leak_location).msg]
    /\ UNCHANGED <<further, machine, perms, driver, jupiter>>

\* _q2 after find_leak(false): time_for_oxygen_spread up to its loop
TimeForOxygenSpread ==
    /\ ~droid.stop_on_leak
    /\ droid.status = "mapped"
    /\ droid' = [droid EXCEPT !.status = "oxygen", !.oxygen_squares = {droid.leak_location},
                              !.t = 0]
    /\ UNCHANGED <<further, machine, perms, driver, jupiter>>

\* the squares the filter of a pass looks up in floor_map
LookedUp == UNION {{Neighbours(c)[k] : k \in 1..4} : c \in droid.oxygen_squares}

\* near_oxygen_squares
NearOxygenSquares ==
    {c \in LookedUp : droid.floor_map[c] = "Open" /\ c \notin droid.oxygen_squares}

\* a pass that looks up a square the map has no entry for: the index panics
OxygenPanics ==
    /\ droid.status = "oxygen"
    /\ ~(\A c \in LookedUp : c \in DOMAIN droid.floor_map)
    /\ droid' = [droid EXCEPT !.status = "panicked", !.msg = "key not found"]
    /\ UNCHANGED <<further, machine, perms, driver, jupiter>>

\* a pass that finds squares to fill
OxygenPass ==
    /\ droid.status = "oxygen"
    /\ \A c \in LookedUp : c \in DOMAIN droid.floor_map
    /\ NearOxygenSquares # {}
    /\ droid' = [droid EXCEPT !.oxygen_squares = @ \cup NearOxygenSquares, !.t = @ + 1]
    /\ UNCHANGED <<further, machine, perms, driver, jupiter>>

\* the pass that finds none: Ok(t)
OxygenDone ==
    /\ droid.status = "oxygen"
    /\ \A c \in LookedUp : c \in DOMAIN droid.floor_map
    /\ NearOxygenSquares = {}
    /\ droid' = [droid EXCEPT !.status = "returned", !.ret = droid.t]
    /\ UNCHANGED <<further, machine, perms, driver, jupiter>>

NextDroid ==
    \/ FindLeak
    \/ ChooseTarget
    \/ FindLeakReturns
    \/ HitWall
    \/ Moved
    \/ FoundLeak
    \/ DistToLeak
    \/ TimeForOxygenSpread
    \/ OxygenPanics
    \/ OxygenPass
    \/ OxygenDone

SpecDroid == InitDroid /\ [][NextDroid]_vars

----------------------------------------------------------------------------
(* day_15: shortest_path_from_to and steps_to_get_to on a map of their own *)

\* the squares of the maps a path is asked on
Grid == {Coordinate(x, y) : x \in 0..MaxX, y \in 0..MaxY}

\* a Droid with a floor_map, and the two coordinates of a call
InitPath ==
    /\ NoMachine
    /\ FurtherIdle
    /\ perms = Unused
    /\ driver = Unused
    /\ jupiter = Unused
    /\ \E floor_map \in [Grid -> {"Open", "Wall"}] : \E from \in Grid : \E to \in Grid :
          droid = [status |-> "path", floor_map |-> floor_map, from |-> from, to |-> to,
                   called |-> "", ok |-> FALSE, path |-> <<>>, ret |-> 0, msg |-> ""]

\* self.shortest_path_from_to(from, to)
CallShortestPath ==
    /\ droid.status = "path"
    /\ droid' = [droid EXCEPT
                    !.status = "returned", !.called = "shortest_path_from_to",
                    !.ok = ShortestPathFromTo(droid.floor_map, droid.from, droid.to).ok,
                    !.path = ShortestPathFromTo(droid.floor_map, droid.from, droid.to).path,
                    !.msg = ShortestPathFromTo(droid.floor_map, droid.from, droid.to).msg]
    /\ UNCHANGED <<further, machine, perms, driver, jupiter>>

\* self.steps_to_get_to(to): the path from the origin, Ok(path.len() - 1)
CallStepsToGetTo ==
    /\ droid.status = "path"
    /\ droid.from = Coordinate(0, 0)
    /\ droid' = [droid EXCEPT
                    !.status = "returned", !.called = "steps_to_get_to",
                    !.ok = ShortestPathFromTo(droid.floor_map, Coordinate(0, 0), droid.to).ok,
                    !.path = ShortestPathFromTo(droid.floor_map, Coordinate(0, 0), droid.to).path,
                    !.ret = Len(ShortestPathFromTo(droid.floor_map, Coordinate(0, 0),
                                                   droid.to).path) - 1,
                    !.msg = ShortestPathFromTo(droid.floor_map, Coordinate(0, 0), droid.to).msg]
    /\ UNCHANGED <<further, machine, perms, driver, jupiter>>

NextPath == CallShortestPath \/ CallStepsToGetTo

SpecPath == InitPath /\ [][NextPath]_vars

----------------------------------------------------------------------------
(* The day_09 machine constructed on one negative instruction cell: every   *)
(* cell from -1 down to -MaxNegative, and four cells further down that the  *)
(* cast to usize turns into instructions of three parameters.               *)

MaxNegative == 620

\* -29515 as usize is 18446744073709522101: opcode 1, modes 1, 2, 2; likewise 2, 7 and 8
ArithmeticCells == {-29515, -29514, -29509, -29508}

NegativeCells == {-k : k \in 1..MaxNegative} \cup ArithmeticCells

InitNegative ==
    /\ memory \in {<<n, 1, 2, 3>> : n \in NegativeCells}
    /\ pointer_idx = 0
    /\ relative_base = 0
    /\ first_input = 1
    /\ second_input = 1
    /\ current_input = 1
    /\ inputs = <<>>
    /\ status = "idle"
    /\ result = NoResult
    /\ prev = NoResult
    /\ hist = NoHist(memory)
    /\ OthersIdle

SpecNegative == InitNegative /\ [][Next]_vars

----------------------------------------------------------------------------
(* A day_09 Program and a day_07 Amplifier constructed on the same memory   *)
(* and called in turn.                                                        *)

\* the calls of run_program made on each
MaxCalls == 3

RECURSIVE RunProgram09(_, _, _, _, _)
\* Program::run_program of day_09 from (mem, pc, rb) to its return, `cells` the cells
\* decoded on the way: [kind, val, msg, mem, pc, rb, cells]
RunProgram09(mem, pc, rb, cells, fuel) ==
    IF fuel = 0 \/ Exec(TRUE, mem, pc, rb, GetInput09(0, <<>>)).kind # "continue"
    THEN [kind |-> IF fuel = 0 THEN "unfollowed"
                   ELSE Exec(TRUE, mem, pc, rb, GetInput09(0, <<>>)).kind,
          val |-> Exec(TRUE, mem, pc, rb, GetInput09(0, <<>>)).val,
          msg |-> Exec(TRUE, mem, pc, rb, GetInput09(0, <<>>)).msg,
          mem |-> Exec(TRUE, mem, pc, rb, GetInput09(0, <<>>)).mem,
          pc |-> Exec(TRUE, mem, pc, rb, GetInput09(0, <<>>)).pc,
          rb |-> Exec(TRUE, mem, pc, rb, GetInput09(0, <<>>)).rb,
          cells |-> IF IndexOk(pc, Len(mem)) THEN Append(cells, mem[pc + 1]) ELSE cells]
    ELSE RunProgram09(Exec(TRUE, mem, pc, rb, GetInput09(0, <<>>)).mem,
                      Exec(TRUE, mem, pc, rb, GetInput09(0, <<>>)).pc,
                      Exec(TRUE, mem, pc, rb, GetInput09(0, <<>>)).rb,
                      Append(cells, mem[pc + 1]), fuel - 1)

RECURSIVE RunLogged07(_, _, _, _, _)
\* Amplifier::run_program of day_07 likewise: [kind, val, msg, mem, pc, cur, cells]
RunLogged07(mem, pc, cur, cells, fuel) ==
    IF fuel = 0 \/ Exec07(mem, pc, GetInput07(0, 0, cur)).kind # "continue"
    THEN [kind |-> IF fuel = 0 THEN "unfollowed"
                   ELSE Exec07(mem, pc, GetInput07(0, 0, cur)).kind,
          val |-> Exec07(mem, pc, GetInput07(0, 0, cur)).val,
          msg |-> Exec07(mem, pc, GetInput07(0, 0, cur)).msg,
          mem |-> Exec07(mem, pc, GetInput07(0, 0, cur)).mem,
          pc |-> Exec07(mem, pc, GetInput07(0, 0, cur)).pc,
          cur |-> cur,
          cells |-> IF IndexOk(pc, Len(mem)) THEN Append(cells, mem[pc + 1]) ELSE cells]
    ELSE RunLogged07(Exec07(mem, pc, GetInput07(0, 0, cur)).mem,
                     Exec07(mem, pc, GetInput07(0, 0, cur)).pc,
                     IF Exec07(mem, pc, GetInput07(0, 0, cur)).popped
                     THEN GetInput07(0, 0, cur).next ELSE cur,
                     Append(cells, mem[pc + 1]), fuel - 1)

\* instructions of three parameters, of two and of one, the mode digits 0 or 1
TwinArithmetic ==
    {<<op + 100 * a + 1000 * b + 10000 * c, x, y, z>> :
        op \in {1, 2, 7, 8}, a \in 0..1, b \in 0..1, c \in 0..1, x \in 0..1, y \in 0..1,
        z \in {0, 5}}

TwinJumps ==
    {<<op + 100 * a + 1000 * b, x, y>> : op \in {5, 6}, a \in 0..1, b \in 0..1, x \in 0..1,
                                         y \in {3, 5}}

TwinOutputs == {<<4 + 100 * a, x>> : a \in 0..1, x \in {0, 1, 9}}

\* one instruction or none, an output, halt
TwinPrograms ==
    {ins \o out \o <<99>> : ins \in TwinArithmetic \cup TwinJumps \cup {<<>>}, out \in TwinOutputs}
    \cup {<<4, 0, 104, 7, 4, 2, 99>>, <<1001, 8, 1, 8, 4, 8, 1005, 8, 0, 99>>}

\* Program::new(memory, 0, 0) and Amplifier::new(memory, 0, 0)
InitTwin ==
    /\ NoMachine
    /\ perms = Unused
    /\ driver = Unused
    /\ jupiter = Unused
    /\ droid = Unused
    /\ robot = Unused
    /\ arcade = Unused
    /\ \E mem \in TwinPrograms :
          twin = [status |-> "program", init |-> mem,
                  program |-> [memory |-> mem, pointer_idx |-> 0, relative_base |-> 0],
                  amplifier |-> AmplifierNew(mem, 0, 0),
                  results09 |-> <<>>, results07 |-> <<>>, cells09 |-> <<>>, cells07 |-> <<>>]

\* the call of run_program on the Program
TwinCall09 ==
    RunProgram09(twin.program.memory, twin.program.pointer_idx, twin.program.relative_base,
                 twin.cells09, MaxSteps)

\* the call of run_program on the Amplifier
TwinCall07 ==
    RunLogged07(twin.amplifier.memory, twin.amplifier.pointer_idx,
                twin.amplifier.current_input, twin.cells07, MaxSteps)

\* what a call returned and the memory it left
TwinResult(r) == [kind |-> r.kind, val |-> r.val, msg |-> r.msg, mem |-> r.mem]

\* program.run_program()
TwinRunProgram ==
    /\ twin.status = "program"
    /\ twin' = [twin EXCEPT
                   !.status = "amplifier",
                   !.program = [memory |-> TwinCall09.mem, pointer_idx |-> TwinCall09.pc,
                                relative_base |-> TwinCall09.rb],
                   !.results09 = Append(@, TwinResult(TwinCall09)),
                   !.cells09 = TwinCall09.cells]
    /\ UNCHANGED <<machine, perms, driver, jupiter, droid, robot, arcade>>

\* amplifier.run_program(); the calls go on while both returned Some
TwinRunAmplifier ==
    /\ twin.status = "amplifier"
    /\ twin' = [twin EXCEPT
                   !.status =
                       IF /\ TwinCall07.kind = "some"
                          /\ twin.results09[Len(twin.results09)].kind = "some"
                          /\ Len(twin.results07) + 1 < MaxCalls
                       THEN "program" ELSE "done",
                   !.amplifier = [@ EXCEPT !.memory = TwinCall07.mem,
                                           !.pointer_idx = TwinCall07.pc,
                                           !.current_input = TwinCall07.cur],
                   !.results07 = Append(@, TwinResult(TwinCall07)),
                   !.cells07 = TwinCall07.cells]
    /\ UNCHANGED <<machine, perms, driver, jupiter, droid, robot, arcade>>

NextTwin == TwinRunProgram \/ TwinRunAmplifier

SpecTwin == InitTwin /\ [][NextTwin]_vars

----------------------------------------------------------------------------
(* day_11: the painting robot.  _q1 drives a Program whose run_program is   *)
(* that of day_09 without the println! lines; its get_input returns the     *)
(* register `input`, which set_input overwrites.  The record `robot` holds  *)
(* the locals of _q1, the place the loop has reached (status), and the      *)
(* values run_program has returned so far (outputs).                        *)

\* the programs of the counting family paint at most MaxLaps times
MaxLaps == 9
\* the programs of the block family have at most MaxBlocks instructions before the halt
MaxBlocks == 4

\* Program::get_input of day_11 returning 0 whatever the register holds
GetInput11Zero(input) == [ok |-> TRUE, val |-> 0, msg |-> "", rest |-> <<>>]

\* Program::get_input of day_11: Ok(self.input)
GetInput11(input) == [ok |-> TRUE, val |-> input, msg |-> "", rest |-> <<>>]

\* Program::new of day_11
Program11New(mem) == [memory |-> mem, input |-> 0, pointer_idx |-> 0, relative_base |-> 0]

\* Colour::new
ColourNew(n) ==
    CASE n = 0 -> [ok |-> TRUE, colour |-> "Black"]
      [] n = 1 -> [ok |-> TRUE, colour |-> "White"]
      [] OTHER -> [ok |-> FALSE, colour |-> "Black"]

\* Colour::to_digit
ToDigit(colour) == IF colour = "Black" THEN 0 ELSE 1

\* a turn to the left that faces about
TurnLeftAbout(d) ==
    CASE d = "Up" -> "Down"
      [] d = "Left" -> "Right"
      [] d = "Down" -> "Up"
      [] d = "Right" -> "Left"

\* Direction::turn_left
TurnLeft(d) ==
    CASE d = "Up" -> "Left"
      [] d = "Left" -> "Down"
      [] d = "Down" -> "Right"
      [] d = "Right" -> "Up"

\* Direction::turn_right
TurnRight(d) ==
    CASE d = "Up" -> "Right"
      [] d = "Right" -> "Down"
      [] d = "Down" -> "Left"
      [] d = "Left" -> "Up"

\* Direction::unit_step
UnitStep(d) ==
    CASE d = "Up" -> Coordinate(0, 1)
      [] d = "Right" -> Coordinate(1, 0)
      [] d = "Down" -> Coordinate(0, -1)
      [] d = "Left" -> Coordinate(-1, 0)

\* paint_grid.get(&current_coord).map(|colour| colour.to_digit()).unwrap_or(0)
ColourUnder(paint_grid, coord) ==
    IF coord \in DOMAIN paint_grid THEN ToDigit(paint_grid[coord]) ELSE 0

\* a program that reads the colour under the robot twice, paints the other colour,
\* turns as `turn` says and goes round `laps` times before it halts
Counting(turn, laps) ==
    <<3, 24, 3, 25, 1002, 25, -1, 25, 101, 1, 25, 25, 4, 25, 104, turn,
      101, -1, 26, 26, 1005, 26, 0, 99, 0, 0, laps>>

\* the instructions of the block family: reads into the cells 9 and 10 past the end,
\* outputs of those cells and of the literals 0, 1, 2, a read with an Immediate
\* parameter and a cell that is no instruction
Blocks ==
    {<<3, 9>>, <<3, 10>>, <<4, 9>>, <<4, 10>>, <<104, 0>>, <<104, 1>>, <<104, 2>>,
     <<103, 0>>, <<55, 0>>}

RECURSIVE Joined(_)
\* the blocks one after the other
Joined(blocks) == IF blocks = <<>> THEN <<>> ELSE Head(blocks) \o Joined(Tail(blocks))

RobotPrograms ==
    {Counting(turn, laps) : turn \in 0..1, laps \in 1..MaxLaps}
        \cup {Joined(blocks) \o <<99>> :
                 blocks \in UNION {[1..n -> Blocks] : n \in 0..MaxBlocks}}

\* _q1 before its loop
InitRobot ==
    /\ NoMachine
    /\ perms = Unused
    /\ driver = Unused
    /\ jupiter = Unused
    /\ droid = Unused
    /\ twin = Unused
    /\ arcade = Unused
    /\ \E mem \in RobotPrograms :
          robot = [status |-> "set_input", program |-> Program11New(mem),
                   paint_grid |-> <<>>, current_coord |-> Coordinate(0, 0),
                   current_orientation |-> "Up", outputs |-> <<>>,
                   ok |-> FALSE, ret |-> 0, msg |-> ""]

\* the instruction run_program executes next
RobotExec ==
    Exec(FALSE, robot.program.memory, robot.program.pointer_idx,
         robot.program.relative_base, GetInput11(robot.program.input))

\* the Program after that instruction
RobotProgramAfter ==
    [robot.program EXCEPT !.memory = RobotExec.mem, !.pointer_idx = RobotExec.pc,
                          !.relative_base = RobotExec.rb]

\* program.set_input(colour of the cell under the robot), at the top of the loop
RobotSetInput ==
    /\ robot.status = "set_input"
    /\ robot' = [robot EXCEPT
                    !.status = "paint",
                    !.program.input = ColourUnder(robot.paint_grid, robot.current_coord)]
    /\ UNCHANGED <<machine, perms, driver, jupiter, droid, twin, arcade>>

\* an instruction of run_program that goes round its loop
RobotStep ==
    /\ robot.status \in {"paint", "turn"}
    /\ RobotExec.kind = "continue"
    /\ robot' = [robot EXCEPT !.program = RobotProgramAfter]
    /\ UNCHANGED <<machine, perms, driver, jupiter, droid, twin, arcade>>

\* the first run_program of a cycle returns Some(output)
RobotPaint ==
    /\ robot.status = "paint"
    /\ RobotExec.kind = "some"
    /\ robot' = [robot EXCEPT
                    !.program = RobotProgramAfter,
                    !.outputs = Append(@, RobotExec.val),
                    !.status = IF ColourNew(RobotExec.val).ok THEN "turn" ELSE "err",
                    !.msg = IF ColourNew(RobotExec.val).ok THEN "" ELSE "Invalid colour",
                    !.paint_grid =
                        IF ColourNew(RobotExec.val).ok
                        THEN Insert(@, robot.current_coord, ColourNew(RobotExec.val).colour)
                        ELSE @]
    /\ UNCHANGED <<machine, perms, driver, jupiter, droid, twin, arcade>>

\* the second run_program of a cycle returns Some(output)
RobotTurn ==
    /\ robot.status = "turn"
    /\ RobotExec.kind = "some"
    /\ robot' =
          IF RobotExec.val \in {0, 1}
          THEN [robot EXCEPT
                   !.program = RobotProgramAfter,
                   !.outputs = Append(@, RobotExec.val),
                   !.status = "set_input",
                   !.current_orientation =
                       IF RobotExec.val = 0 THEN TurnLeft(@) ELSE TurnRight(@),
                   !.current_coord =
                       Plus(@, UnitStep(IF RobotExec.val = 0
                                        THEN TurnLeft(robot.current_orientation)
                                        ELSE TurnRight(robot.current_orientation)))]
          ELSE [robot EXCEPT
                   !.program = RobotProgramAfter,
                   !.outputs = Append(@, RobotExec.val),
                   !.status = "err",
                   !.msg = "Invalid direction output from program"]
    /\ UNCHANGED <<machine, perms, driver, jupiter, droid, twin, arcade>>

\* either run_program returns None: break, Ok(paint_grid.len())
RobotHalt ==
    /\ robot.status \in {"paint", "turn"}
    /\ RobotExec.kind = "none"
    /\ robot' = [robot EXCEPT
                    !.program = RobotProgramAfter,
                    !.status = "done", !.ok = TRUE,
                    !.ret = Cardinality(DOMAIN robot.paint_grid)]
    /\ UNCHANGED <<machine, perms, driver, jupiter, droid, twin, arcade>>

\* either run_program returns Err (the ? of _q1) or panics
RobotFails ==
    /\ robot.status \in {"paint", "turn"}
    /\ RobotExec.kind \in {"err", "panic"}
    /\ robot' = [robot EXCEPT
                    !.program = RobotProgramAfter,
                    !.status = RobotExec.kind, !.msg = RobotExec.msg]
    /\ UNCHANGED <<machine, perms, driver, jupiter, droid, twin, arcade>>

NextRobot ==
    \/ RobotSetInput
    \/ RobotStep
    \/ RobotPaint
    \/ RobotTurn
    \/ RobotHalt
    \/ RobotFails

SpecRobot == InitRobot /\ [][NextRobot]_vars

----------------------------------------------------------------------------
(* day_13: the arcade cabinet.  The Program of day_13 carries the display,  *)
(* the score and the coordinates of the ball and of the paddle; its         *)
(* run_program is that of day_11, and its get_input answers from those      *)
(* coordinates.  The record `arcade` holds the Program, the place run_game  *)
(* has reached (status: the output it waits for), the locals x and y, and   *)
(* the values run_program has returned so far (outputs).                    *)

\* the programs of the item family have at most MaxItems triples and reads
MaxItems == 3
\* the ball and the paddle of the playing programs start at 0 .. MaxGame
MaxGame == 3

\* `v as usize` of an i64 v: the number v + 2^64 * carry
AsUsize(v) == [carry |-> IF v < 0 THEN 1 ELSE 0, low |-> v]

\* `u as i64` of a usize u
AsI64(u) == u.low

\* Coordinate::new of day_13, both fields usize
Coordinate13(x, y) == [x |-> x, y |-> y]

\* TileType::new
TileTypeNew(n) ==
    CASE n = AsUsize(0) -> [ok |-> TRUE, tile |-> "Empty"]
      [] n = AsUsize(1) -> [ok |-> TRUE, tile |-> "Wall"]
      [] n = AsUsize(2) -> [ok |-> TRUE, tile |-> "Block"]
      [] n = AsUsize(3) -> [ok |-> TRUE, tile |-> "Paddle"]
      [] n = AsUsize(4) -> [ok |-> TRUE, tile |-> "Ball"]
      [] OTHER -> [ok |-> FALSE, tile |-> "Empty"]

\* i64::signum
Signum64(n) == IF n > 0 THEN 1 ELSE IF n < 0 THEN -1 ELSE 0

\* Program::get_input of day_13 answering from the register
GetInput13Register(program) ==
    [ok |-> TRUE, val |-> program.input, msg |-> "", rest |-> <<>>]

\* Program::get_input of day_13
GetInput13(program) ==
    [ok |-> TRUE,
     val |-> Signum64(AsI64(program.ball_coord.x) - AsI64(program.paddle_coord.x)),
     msg |-> "", rest |-> <<>>]

\* Program::new of day_13
Program13New(mem) ==
    [memory |-> mem, input |-> 0, pointer_idx |-> 0, relative_base |-> 0,
     display |-> <<>>, score |-> AsUsize(0),
     ball_coord |-> Coordinate13(AsUsize(0), AsUsize(0)),
     paddle_coord |-> Coordinate13(AsUsize(0), AsUsize(0))]

\* the Block tiles counted instead of the Ball tiles
BlockCountBalls(display) == Cardinality({c \in DOMAIN display : display[c] = "Ball"})

\* self.display.values().filter(|&&tile| tile == TileType::Block).count()
BlockCount(display) == Cardinality({c \in DOMAIN display : display[c] = "Block"})

\* the items of the item family: a read into the cell 40 past the end, and triples
\* (score triples, tiles at a negative x, a Block and what overwrites it, Balls and
\* Paddles, a tile that is none)
Items ==
    {<<3, 40>>,
     <<104, -1, 104, 0, 104, 4>>, <<104, -1, 104, 1, 104, 4>>,
     <<104, 0, 104, 0, 104, 2>>, <<104, 0, 104, 0, 104, 0>>,
     <<104, 1, 104, 0, 104, 4>>, <<104, 1, 104, 0, 104, 3>>,
     <<104, 2, 104, 1, 104, 3>>, <<104, 0, 104, 1, 104, 5>>}

\* how a program of the item family ends: the halt, after no, one or two outputs (the
\* read of a triple left open coming before the halt), or a cell that is no instruction
Endings == {<<99>>, <<104, -1, 3, 40, 99>>, <<104, -1, 104, 0, 3, 40, 99>>, <<55>>}

\* a game: the ball at x = b, the paddle at x = p; the paddle is drawn, the joystick
\* is read and added to the paddle's x until it reads 0; then the score is the
\* paddle's x
Playing(b, p) ==
    <<4, 30, 104, 1, 104, 4, 4, 31, 104, 2, 104, 3, 3, 32, 1, 31, 32, 31,
      1005, 32, 6, 104, -1, 104, 0, 4, 31, 99, 0, 0, b, p, 0>>

ArcadePrograms ==
    {Playing(b, p) : b \in 0..MaxGame, p \in 0..MaxGame}
        \cup {Joined(items) \o ending :
                 items \in UNION {[1..n -> Items] : n \in 0..MaxItems},
                 ending \in Endings}

\* Program::new(memory)
InitArcade ==
    /\ NoMachine
    /\ perms = Unused
    /\ driver = Unused
    /\ jupiter = Unused
    /\ droid = Unused
    /\ twin = Unused
    /\ robot = Unused
    /\ \E mem \in ArcadePrograms :
          arcade = [status |-> "new", program |-> Program13New(mem),
                    x |-> 0, y |-> 0, outputs |-> <<>>, halted |-> FALSE,
                    ok |-> FALSE, msg |-> ""]

\* program.set_input(1) before the game is run
ArcadeSetInput ==
    /\ arcade.status = "new"
    /\ arcade.program.input = 0
    /\ arcade' = [arcade EXCEPT !.program.input = 1]
    /\ UNCHANGED <<machine, perms, driver, jupiter, droid, twin, robot>>

\* program.run_game() is called
ArcadeRunGame ==
    /\ arcade.status = "new"
    /\ arcade' = [arcade EXCEPT !.status = "x"]
    /\ UNCHANGED <<machine, perms, driver, jupiter, droid, twin, robot>>

\* the instruction run_program executes next
ArcadeExec ==
    Exec(FALSE, arcade.program.memory, arcade.program.pointer_idx,
         arcade.program.relative_base, GetInput13(arcade.program))

\* the Program after that instruction
ArcadeProgramAfter ==
    [arcade.program EXCEPT !.memory = ArcadeExec.mem, !.pointer_idx = ArcadeExec.pc,
                           !.relative_base = ArcadeExec.rb]

\* an instruction of run_program that goes round its loop
ArcadeStep ==
    /\ arcade.status \in {"x", "y", "third"}
    /\ ArcadeExec.kind = "continue"
    /\ arcade' = [arcade EXCEPT !.program = ArcadeProgramAfter]
    /\ UNCHANGED <<machine, perms, driver, jupiter, droid, twin, robot>>

\* the first run_program of a round returns Some(output): let x
ArcadeX ==
    /\ arcade.status = "x"
    /\ ArcadeExec.kind = "some"
    /\ arcade' = [arcade EXCEPT !.program = ArcadeProgramAfter,
                                !.outputs = Append(@, ArcadeExec.val),
                                !.x = ArcadeExec.val, !.status = "y"]
    /\ UNCHANGED <<machine, perms, driver, jupiter, droid, twin, robot>>

\* the second returns Some(output): let y
ArcadeY ==
    /\ arcade.status = "y"
    /\ ArcadeExec.kind = "some"
    /\ arcade' = [arcade EXCEPT !.program = ArcadeProgramAfter,
                                !.outputs = Append(@, ArcadeExec.val),
                                !.y = ArcadeExec.val, !.status = "third"]
    /\ UNCHANGED <<machine, perms, driver, jupiter, droid, twin, robot>>

\* the arm (-1, 0) of the match leaving the score as it is
ScoreArmKeeps(program, third_output) == program

\* the arm (-1, 0) of the match
ScoreArm(program, third_output) == [program EXCEPT !.score = AsUsize(third_output)]

\* the arm (x, y) of the match once the tile is made
TileArm(program, coord, tile) ==
    [program EXCEPT
        !.ball_coord = IF tile = "Ball" THEN coord ELSE @,
        !.paddle_coord = IF tile = "Paddle" THEN coord ELSE @,
        !.display = Insert(@, coord, tile)]

\* the tile of the third output, and the Program once the arm (x, y) has inserted it
ArcadeTile == TileTypeNew(AsUsize(ArcadeExec.val))
ArcadeTiled ==
    TileArm(ArcadeProgramAfter, Coordinate13(AsUsize(arcade.x), AsUsize(arcade.y)),
            ArcadeTile.tile)

\* if tile == TileType::Block { ... if block_count == 0 { return Ok(()) } }
EarlyExit == ArcadeTile.tile = "Block" /\ BlockCount(ArcadeTiled.display) = 0

\* the third returns Some(output): the match on (x, y)
ArcadeThird ==
    /\ arcade.status = "third"
    /\ ArcadeExec.kind = "some"
    /\ arcade' =
          IF arcade.x = -1 /\ arcade.y = 0
          THEN [arcade EXCEPT
                   !.program = ScoreArm(ArcadeProgramAfter, ArcadeExec.val),
                   !.outputs = Append(@, ArcadeExec.val),
                   !.status = "x"]
          ELSE IF ~ArcadeTile.ok
          THEN [arcade EXCEPT
                   !.program = ArcadeProgramAfter,
                   !.outputs = Append(@, ArcadeExec.val),
                   !.status = "err", !.msg = "Invalid colour"]
          ELSE [arcade EXCEPT
                   !.program = ArcadeTiled,
                   !.outputs = Append(@, ArcadeExec.val),
                   !.ok = EarlyExit,
                   !.status = IF EarlyExit THEN "exit" ELSE "x"]
    /\ UNCHANGED <<machine, perms, driver, jupiter, droid, twin, robot>>

\* a run_program returns None: break, Ok(())
ArcadeHalt ==
    /\ arcade.status \in {"x", "y", "third"}
    /\ ArcadeExec.kind = "none"
    /\ arcade' = [arcade EXCEPT !.program = ArcadeProgramAfter,
                                !.status = "done", !.halted = TRUE, !.ok = TRUE]
    /\ UNCHANGED <<machine, perms, driver, jupiter, droid, twin, robot>>

\* a run_program returns Err (the ? of run_game) or panics
ArcadeFails ==
    /\ arcade.status \in {"x", "y", "third"}
    /\ ArcadeExec.kind \in {"err", "panic"}
    /\ arcade' = [arcade EXCEPT !.program = ArcadeProgramAfter,
                                !.status = ArcadeExec.kind, !.msg = ArcadeExec.msg]
    /\ UNCHANGED <<machine, perms, driver, jupiter, droid, twin, robot>>

NextArcade ==
    \/ ArcadeSetInput
    \/ ArcadeRunGame
    \/ ArcadeStep
    \/ ArcadeX
    \/ ArcadeY
    \/ ArcadeThird
    \/ ArcadeHalt
    \/ ArcadeFails

SpecArcade == InitArcade /\ [][NextArcade]_vars

----------------------------------------------------------------------------
(* What the claims say of an instruction, stated without the model's arms *)

\* the cell at address a of mem, an address past the end reading as 0
CellOrZero(mem, a) == IF a < Len(mem) THEN mem[a + 1] ELSE 0

\* the instruction under the pointer and its i-th raw parameter (i = 0, 1, 2)
CurIns == InstructionNew(memory[pointer_idx + 1])
Raw(i) == memory[pointer_idx + 2 + i]

\* read(p_i): the operand of parameter i
Operand(i) ==
    CASE CurIns.parameters[i + 1] = "Position" -> CellOrZero(memory, Raw(i))
      [] CurIns.parameters[i + 1] = "Immediate" -> Raw(i)
      [] CurIns.parameters[i + 1] = "Relative" -> CellOrZero(memory, relative_base + Raw(i))

\* the write address of parameter i
WriteAddress(i) ==
    CASE CurIns.parameters[i + 1] = "Position" -> Raw(i)
      [] CurIns.parameters[i + 1] = "Relative" -> relative_base + Raw(i)

\* an iteration of opcode op has been executed and the loop goes on
Executed(op) ==
    status = "running" /\ status' = "running" /\ OpcodeAt(memory, pointer_idx) = op

\* no cell that existed before the step, other than the one at address t, has changed
OnlyCellChanged(t) ==
    /\ Len(memory') >= Len(memory)
    /\ \A i \in 0..(Len(memory) - 1) : i # t => memory'[i + 1] = memory[i + 1]

Returned(kind) == status = "running" /\ status' = "idle" /\ result'.kind = kind

----------------------------------------------------------------------------
(* C1: a run_program call of day_09 that returns Some(v) returns at an      *)
(* opcode-4 instruction, v is that instruction's resolved operand and the   *)
(* pointer is left 2 past it; an opcode-4 instruction always ends the call  *)
(* (so the output returned is the first one reached); a call changes        *)
(* neither memory, pointer nor relative base before its first iteration, so *)
(* the call after an output starts at the cell following that instruction.  *)
C1_OutputStep ==
    /\ Returned("some") =>
          /\ OpcodeAt(memory, pointer_idx) = 4
          /\ result'.val = Operand(0)
          /\ pointer_idx' = pointer_idx + 2
          /\ relative_base' = relative_base
          /\ OnlyCellChanged(-1)
    /\ (status = "running" /\ OpcodeAt(memory, pointer_idx) = 4 /\ status' # "panicked")
          => (status' = "idle" /\ result'.kind = "some")
    /\ (status = "idle" /\ status' = "running") =>
          /\ memory' = memory /\ pointer_idx' = pointer_idx /\ relative_base' = relative_base
          /\ result.kind = "some" => pointer_idx = hist.at + 2

C1_SuspendAfterOutput == [][C1_OutputStep]_vars

\* two calls in a row returned an output: the second resumed behind the first
C1_Witness ==
    status = "idle" /\ result.kind = "some" /\ prev.kind = "some" /\ hist.at > 0

(* C2: once run_program of day_09 has returned None, no later step changes  *)
(* memory, pointer or relative base, no call panics and every call that     *)
(* returns, returns None again.                                             *)
C2_HaltStep ==
    (result.kind = "none" /\ status \in {"idle", "running"}) =>
        /\ memory' = memory
        /\ pointer_idx' = pointer_idx
        /\ relative_base' = relative_base
        /\ status' \in {"idle", "running"}
        /\ result'.kind = "none"

C2_HaltIsIdempotent == [][C2_HaltStep]_vars

\* a call on the halted machine has returned None again
C2_Witness == status = "idle" /\ result.kind = "none" /\ prev.kind = "none"

(* C3: in the day_17 Program the values stored by the read-input           *)
(* instructions are, in order, the values passed to add_input: the k-th     *)
(* completed read-input stores the k-th supplied value, and every supplied  *)
(* value is either the one stored by the read-input of its rank or still    *)
(* waiting in the queue behind the ones supplied before it (none is lost,   *)
(* none is stored twice).                                                   *)
C3_InputsAreFifo ==
    status # "panicked" =>
        /\ Len(hist.stored) <= Len(hist.supplied)
        /\ \A k \in 1..Len(hist.stored) : hist.stored[k] = hist.supplied[k]
        /\ hist.supplied = hist.stored \o inputs

\* two different values were supplied and both were stored, a third one was supplied
\* only after the first two had been read
C3_Witness ==
    /\ Len(hist.stored) = 3
    /\ hist.stored[1] # hist.stored[2]
    /\ prev.msg = "No inputs left"

\* the write address of a read-input instruction under the pointer: its raw parameter is
\* fetched through get_output_idx, which reads 0 beyond the end of the memory
InputAddress ==
    IF CurIns.parameters[1] = "Position"
    THEN CellOrZero(memory, pointer_idx + 1)
    ELSE relative_base + CellOrZero(memory, pointer_idx + 1)

(* C4: in the day_17 Program a read-input instruction (whose write          *)
(* parameter is in Position or Relative mode) reached with the queue empty  *)
(* makes run_program return Err("No inputs left") with the pointer, the     *)
(* relative base and every existing cell as they were; add_input and the    *)
(* start of the next call change none of them, so the next call starts on   *)
(* that instruction; and with a value v at the head of the queue the        *)
(* instruction stores v at its write address (whenever that address is not  *)
(* negative), advances the pointer by 2 and the loop goes on.               *)
C4_ReadInputStep ==
    /\ (status = "running" /\ OpcodeAt(memory, pointer_idx) = 3 /\ inputs = <<>>
        /\ CurIns.parameters[1] # "Immediate") =>
          /\ status' = "idle"
          /\ result'.kind = "err" /\ result'.msg = "No inputs left"
          /\ pointer_idx' = pointer_idx
          /\ relative_base' = relative_base
          /\ OnlyCellChanged(-1)
          /\ inputs' = <<>>
    /\ (status = "idle" /\ status' \in {"idle", "running"}) =>
          /\ memory' = memory /\ pointer_idx' = pointer_idx /\ relative_base' = relative_base
          /\ (result.msg = "No inputs left" =>
                pointer_idx = hist.at /\ OpcodeAt(memory, pointer_idx) = 3)
          /\ (status' = "idle" => \E v \in InputVals : inputs' = Append(inputs, v))
          /\ (status' = "running" => inputs' = inputs)
    /\ (status = "running" /\ OpcodeAt(memory, pointer_idx) = 3 /\ inputs # <<>>
        /\ CurIns.parameters[1] # "Immediate" /\ InputAddress >= 0) =>
          /\ status' = "running"
          /\ CellOrZero(memory', InputAddress) = Head(inputs)
          /\ InputAddress < Len(memory')
          /\ pointer_idx' = pointer_idx + 2
          /\ relative_base' = relative_base
          /\ inputs' = Tail(inputs)
          /\ OnlyCellChanged(InputAddress)

C4_SuspendOnEmptyQueue == [][C4_ReadInputStep]_vars

\* a call returned for want of an input, a value was supplied, and the next call stored
\* it and went on to output it
C4_Witness ==
    /\ status = "idle"
    /\ prev.kind = "err" /\ prev.msg = "No inputs left"
    /\ result.kind = "some"
    /\ hist.stored # <<>>
    /\ result.val = hist.stored[Len(hist.stored)]

(* C5: a Position or Relative read (get_parameter) or a write               *)
(* (set_parameter) of day_09 at an address a >= 0 that is at or beyond the  *)
(* length of the memory succeeds; afterwards the memory has a + 1 cells,    *)
(* the old cells keep their values, the new cells hold 0 except a written   *)
(* cell, which holds the written value, and the read yields 0.              *)
C5_GrowthOnAccess ==
    LET acc == hist.access
    IN  (acc.kind \in {"read", "write"} /\ acc.addr >= Len(acc.before)) =>
            /\ acc.ok /\ status = "accessed"
            /\ Len(memory) = acc.addr + 1
            /\ \A i \in 1..Len(acc.before) : memory[i] = acc.before[i]
            /\ \A i \in (Len(acc.before) + 1)..acc.addr : memory[i] = 0
            /\ acc.kind = "read" => (acc.val = 0 /\ memory[acc.addr + 1] = 0)
            /\ acc.kind = "write" => memory[acc.addr + 1] = acc.val

\* a write of 9 two cells beyond the end of a non-empty memory
C5_Witness ==
    /\ hist.access.kind = "write" /\ hist.access.val = 9
    /\ hist.access.before # <<>>
    /\ hist.access.addr = Len(hist.access.before) + 1
    /\ Len(memory) = Len(hist.access.before) + 2

(* C6: no memory access of the day_09 run_program fails because of an       *)
(* out-of-bounds index (instruction fetch, raw parameter fetch, operand     *)
(* reads and writes).                                                       *)
C6_NoOutOfBounds == ~(status = "panicked" /\ result.msg = OutOfBounds)

\* the fixed arity of an opcode, and the i-th least significant decimal digit of m
ArityOf(opcode) ==
    IF opcode \in {1, 2, 7, 8} THEN 3
    ELSE IF opcode \in {5, 6} THEN 2
    ELSE IF opcode \in {3, 4, 9} THEN 1
    ELSE 0

DigitAt(m, i) == (m \div Pow10(i)) % 10

ModeName(d) == IF d = 0 THEN "Position" ELSE IF d = 1 THEN "Immediate" ELSE "Relative"

(* C7: for a non-negative n that Instruction::new (day_09) accepts, the     *)
(* opcode is n mod 100, the parameter list has the arity of the opcode and  *)
(* its i-th element is the mode of the i-th least significant digit of      *)
(* n / 100 (Position where n / 100 has no such digit).                      *)
C7_DecodeAccepted ==
    (hist.at >= 0 /\ hist.cell >= 0 /\ hist.ins.ok) =>
        /\ hist.ins.opcode = hist.cell % 100
        /\ hist.ins.opcode \in {1, 2, 3, 4, 5, 6, 7, 8, 9, 99}
        /\ Len(hist.ins.parameters) = ArityOf(hist.cell % 100)
        /\ \A i \in 0..(ArityOf(hist.cell % 100) - 1) :
              /\ DigitAt(hist.cell \div 100, i) \in {0, 1, 2}
              /\ hist.ins.parameters[i + 1] = ModeName(DigitAt(hist.cell \div 100, i))

\* 1002 has been decoded to opcode 2 with modes Position, Immediate, Position
C7_Witness ==
    /\ hist.cell = 1002
    /\ hist.ins.ok /\ hist.ins.opcode = 2
    /\ hist.ins.parameters = <<"Position", "Immediate", "Position">>

\* n is a number the claim says is rejected
Rejected(n) ==
    \/ n % 100 \notin {1, 2, 3, 4, 5, 6, 7, 8, 9, 99}
    \/ \E i \in 0..(ArityOf(n % 100) - 1) : DigitAt(n \div 100, i) \notin {0, 1, 2}

(* C8: when the cell under the pointer holds a non-negative n whose opcode  *)
(* n mod 100 is not one of 1..9, 99, or one of whose mode digits at the     *)
(* positions 0..arity-1 of n / 100 is not 0, 1 or 2, Instruction::new       *)
(* returns an error and run_program returns it with memory, pointer and     *)
(* relative base untouched.                                                 *)
C8_RejectStep ==
    (status = "running" /\ IndexOk(pointer_idx, Len(memory)) /\ memory[pointer_idx + 1] >= 0
     /\ Rejected(memory[pointer_idx + 1])) =>
        /\ status' = "idle"
        /\ result'.kind = "err"
        /\ result'.msg \in {"Cannot read opcode", "Cannot read parameter digit"}
        /\ ~hist'.ins.ok /\ hist'.cell = memory[pointer_idx + 1]
        /\ memory' = memory
        /\ pointer_idx' = pointer_idx
        /\ relative_base' = relative_base

C8_DecodeRejects == [][C8_RejectStep]_vars

\* a cell with a valid opcode and the mode digit 3 in its second position was rejected
C8_Witness ==
    /\ status = "idle" /\ result.kind = "err" /\ result.msg = "Cannot read parameter digit"
    /\ hist.cell % 100 = 7 /\ DigitAt(hist.cell \div 100, 1) = 3
    /\ DigitAt(hist.cell \div 100, 0) = 2
    /\ memory = hist.init /\ pointer_idx = 0

(* C9: an executed add (multiply) of day_09 stores read(p0) + read(p1)      *)
(* (read(p0) * read(p1)) at the write address of the third parameter,       *)
(* advances the pointer by 4, leaves the relative base alone and changes no *)
(* other cell that existed before.                                          *)
C9_ArithStep ==
    /\ Executed(1) =>
          /\ CellOrZero(memory', WriteAddress(2)) = Operand(0) + Operand(1)
          /\ WriteAddress(2) < Len(memory')
          /\ pointer_idx' = pointer_idx + 4
          /\ relative_base' = relative_base
          /\ OnlyCellChanged(WriteAddress(2))
    /\ Executed(2) =>
          /\ CellOrZero(memory', WriteAddress(2)) = Operand(0) * Operand(1)
          /\ WriteAddress(2) < Len(memory')
          /\ pointer_idx' = pointer_idx + 4
          /\ relative_base' = relative_base
          /\ OnlyCellChanged(WriteAddress(2))

C9_AddMultiply == [][C9_ArithStep]_vars

\* the add 1101,1,2,z has been executed and the cell at z holds 3, which is not 1 * 2
C9_Witness ==
    /\ status = "running"
    /\ hist.ins.ok /\ hist.ins.opcode = 1
    /\ hist.ins.parameters = <<"Immediate", "Immediate", "Position">>
    /\ hist.init[hist.at + 2] = 1 /\ hist.init[hist.at + 3] = 2
    /\ pointer_idx = hist.at + 4
    /\ memory[hist.init[hist.at + 4] + 1] = 3

(* C10: an executed less-than (equals) of day_09 stores 1 at the write      *)
(* address when read(p0) < read(p1) (read(p0) = read(p1)) as signed         *)
(* integers and 0 otherwise, and advances the pointer by 4.                 *)
C10_CompareStep ==
    /\ Executed(7) =>
          /\ CellOrZero(memory', WriteAddress(2)) = (IF Operand(0) < Operand(1) THEN 1 ELSE 0)
          /\ WriteAddress(2) < Len(memory')
          /\ pointer_idx' = pointer_idx + 4
    /\ Executed(8) =>
          /\ CellOrZero(memory', WriteAddress(2)) = (IF Operand(0) = Operand(1) THEN 1 ELSE 0)
          /\ WriteAddress(2) < Len(memory')
          /\ pointer_idx' = pointer_idx + 4

C10_LessThanEquals == [][C10_CompareStep]_vars

\* a less-than of a negative and a non-negative operand has stored 1
C10_Witness ==
    /\ status = "running"
    /\ hist.ins.ok /\ hist.ins.opcode = 7
    /\ hist.ins.parameters = <<"Immediate", "Immediate", "Position">>
    /\ hist.init[hist.at + 2] = -1 /\ hist.init[hist.at + 3] = 0
    /\ memory[hist.init[hist.at + 4] + 1] = 1

\* the usize u is the integer x: a negative u stands for the usize u + 2^64, which is at
\* least 2^63 and so equal to no i64
UsizeIs(u, x) == u >= 0 /\ u = x

(* C11: an executed jump-if-true (jump-if-false) of day_09 sets the pointer *)
(* to read(p1) when read(p0) is non-zero (zero) and to the pointer + 3      *)
(* otherwise, the pointer stays a non-negative index, and neither the       *)
(* relative base nor any existing cell changes.                             *)
C11_JumpStep ==
    /\ Executed(5) =>
          /\ UsizeIs(pointer_idx', IF Operand(0) # 0 THEN Operand(1) ELSE pointer_idx + 3)
          /\ relative_base' = relative_base
          /\ OnlyCellChanged(-1)
    /\ Executed(6) =>
          /\ UsizeIs(pointer_idx', IF Operand(0) = 0 THEN Operand(1) ELSE pointer_idx + 3)
          /\ relative_base' = relative_base
          /\ OnlyCellChanged(-1)

C11_Jumps == [][C11_JumpStep]_vars

(* C12: the relative base of the day_09 Program is 0 after construction; an *)
(* executed adjust-relative-base adds exactly read(p0) to it and advances   *)
(* the pointer by 2; no other step (any other instruction, a return of      *)
(* halt or of an error, the start of a call) changes it.                    *)
C12_BaseStep ==
    /\ Executed(9) =>
          /\ relative_base' = relative_base + Operand(0)
          /\ pointer_idx' = pointer_idx + 2
    /\ ~Executed(9) => relative_base' = relative_base

C12_RelativeBase == (relative_base = 0) /\ [][C12_BaseStep]_vars

\* a second adjust-relative-base has added its operand 2 to the base 4 the first one left
C12_Witness ==
    /\ status = "running"
    /\ hist.at = 2 /\ hist.cell = 109 /\ hist.init[4] = 2
    /\ pointer_idx = 4
    /\ relative_base = 6

(* C13: get_parameter of day_09, given the raw value r, yields memory[r] in *)
(* Position mode, r itself in Immediate mode and memory[relative_base + r]  *)
(* in Relative mode (a cell past the end reading as 0), for every           *)
(* non-negative address.                                                    *)
C13_OperandRead ==
    LET acc == hist.access
    IN  /\ (acc.mode = "Position" /\ acc.raw >= 0) =>
              acc.ok /\ acc.val = CellOrZero(acc.before, acc.raw)
        /\ acc.mode = "Immediate" =>
              acc.ok /\ acc.val = acc.raw /\ memory = acc.before
        /\ (acc.mode = "Relative" /\ relative_base + acc.raw >= 0) =>
              acc.ok /\ acc.val = CellOrZero(acc.before, relative_base + acc.raw)

\* a Relative read of the raw value 1 under the base -1 has yielded cell 0, which differs
\* from cell 1
C13_Witness ==
    /\ hist.access.mode = "Relative" /\ hist.access.raw = 1 /\ relative_base = -1
    /\ Len(hist.access.before) >= 2
    /\ hist.access.before[1] = 5 /\ hist.access.before[2] = 3
    /\ hist.access.val = 5

\* what the instruction under the pointer stores, by its opcode
ValueStored(op) ==
    CASE op = 1 -> Operand(0) + Operand(1)
      [] op = 2 -> Operand(0) * Operand(1)
      [] op = 3 -> first_input
      [] op = 7 -> (IF Operand(0) < Operand(1) THEN 1 ELSE 0)
      [] op = 8 -> (IF Operand(0) = Operand(1) THEN 1 ELSE 0)

\* the step has written the value v at the address t and no other cell: cells that existed
\* keep their values and cells the memory has grown by are 0
WroteOnly(t, v) ==
    /\ t >= 0 /\ t < Len(memory')
    /\ memory'[t + 1] = v
    /\ OnlyCellChanged(t)
    /\ \A i \in Len(memory)..(Len(memory') - 1) : i # t => memory'[i + 1] = 0

(* C14: an executed add, multiply, less-than or equals of day_09 writes its  *)
(* value at the raw value of the third parameter in Position mode and at    *)
(* relative_base + raw value in Relative mode, read-input does so with its  *)
(* only parameter, and no other cell is written.                            *)
C14_WriteStep ==
    /\ \A op \in {1, 2, 7, 8} : Executed(op) => WroteOnly(WriteAddress(2), ValueStored(op))
    /\ Executed(3) => WroteOnly(WriteAddress(0), ValueStored(3))

C14_WriteAddress == [][C14_WriteStep]_vars

\* under the base 4 the add 21101,1,2,2 has stored 3 at the address 6, not at 2
C14_Witness ==
    /\ status = "running"
    /\ hist.at = 2 /\ hist.cell = 21101
    /\ relative_base = 4
    /\ hist.init[4] = 1 /\ hist.init[5] = 2 /\ hist.init[6] = 2
    /\ Len(memory) = 7 /\ memory[7] = 3 /\ memory[3] = hist.init[3]

\* day_07: the instruction under the pointer and read(p_i) in its two modes
CurIns07 == InstructionNew07(memory[pointer_idx + 1])

Operand07(i) ==
    IF CurIns07.parameters[i + 1] = "Immediate" THEN Raw(i) ELSE memory[Raw(i) + 1]

(* C15: a write-output instruction of the day_07 Amplifier (the day_05 arm  *)
(* is the same) yields read(p0): memory[r] for a Position-mode parameter r  *)
(* and r itself for an Immediate-mode parameter.                            *)
C15_OutputStep ==
    (Returned("some") /\ OpcodeAt07(memory, pointer_idx) = 4) => result'.val = Operand07(0)

C15_OutputByMode == [][C15_OutputStep]_vars

\* the write-target parameter of the instruction under the pointer is decoded as Immediate
ImmediateTarget ==
    \/ OpcodeAt(memory, pointer_idx) \in {1, 2, 7, 8} /\ CurIns.parameters[3] = "Immediate"
    \/ OpcodeAt(memory, pointer_idx) = 3 /\ CurIns.parameters[1] = "Immediate"

(* C16: when the write-target parameter of the instruction under the        *)
(* pointer is decoded as Immediate (11101, 103), run_program of day_09      *)
(* writes no cell and returns an Err to its caller: the call ends in one of *)
(* the results Some, None, Err.                                             *)
C16_ImmediateTargetStep ==
    (status = "running" /\ ImmediateTarget) =>
        /\ status' = "idle"
        /\ result'.kind = "err"
        /\ OnlyCellChanged(-1)

C16_ImmediateTargetIsError == [][C16_ImmediateTargetStep]_vars

\* n is a non-negative cell whose opcode is none of 1..9, 99
IllegalOpcode(n) == n >= 0 /\ n % 100 \notin {1, 2, 3, 4, 5, 6, 7, 8, 9, 99}

(* C17: when the cell under the pointer holds an illegal opcode,            *)
(* run_program of day_09 returns an error and changes neither memory,       *)
(* pointer nor relative base; from then on no step changes them, every      *)
(* later call returns at once, and it returns the same error.               *)
C17_IllegalOpcodeStep ==
    /\ (status = "running" /\ IndexOk(pointer_idx, Len(memory))
        /\ IllegalOpcode(memory[pointer_idx + 1])) =>
          /\ status' = "idle"
          /\ result'.kind = "err" /\ result'.msg = "Cannot read opcode"
          /\ memory' = memory
          /\ pointer_idx' = pointer_idx
          /\ relative_base' = relative_base
    /\ (status \in {"idle", "running"} /\ result.kind = "err"
        /\ result.msg = "Cannot read opcode" /\ IllegalOpcode(hist.cell)) =>
          /\ memory' = memory
          /\ pointer_idx' = pointer_idx
          /\ relative_base' = relative_base
          /\ status' = (IF status = "idle" THEN "running" ELSE "idle")
          /\ result' = result
          /\ hist'.at = hist.at

C17_IllegalOpcodeStops == [][C17_IllegalOpcodeStep]_vars

\* a second call on the cell 77 has returned the error the first call returned
C17_Witness ==
    /\ status = "idle"
    /\ hist.cell % 100 = 77
    /\ result.kind = "err" /\ result.msg = "Cannot read opcode" /\ result.val = 77
    /\ prev = result

(* C18: the error run_program of day_09 returns for an illegal opcode names *)
(* the illegal opcode value and the pointer at which the cell was fetched.  *)
C18_ErrorNamesOpcodeAndPc ==
    (status = "idle" /\ result.kind = "err" /\ IllegalOpcode(hist.cell)) =>
        /\ hist.cell % 100 \in NumbersNamed(result)
        /\ hist.at \in NumbersNamed(result)

\* the loop is about to execute a cell that no longer holds the value the Program was
\* constructed with
Overwritten ==
    /\ status = "running"
    /\ IndexOk(pointer_idx, Len(memory)) /\ IndexOk(pointer_idx, Len(hist.init))
    /\ memory[pointer_idx + 1] # hist.init[pointer_idx + 1]

(* C19: the instruction run_program of day_09 executes at a pointer is the  *)
(* one encoded by the value the cell holds when the pointer reaches it:     *)
(* when an earlier instruction has overwritten the cell, the step performed *)
(* there is the step of the new value (halt, error, output, store, jump,    *)
(* base adjustment, each with the operands of the new value).               *)
C19_FreshDecodeStep ==
    Overwritten =>
        /\ OpcodeAt(memory, pointer_idx) = 99 => Returned("none")
        /\ OpcodeAt(memory, pointer_idx) = -1 => Returned("err")
        /\ (OpcodeAt(memory, pointer_idx) = 4 /\ status' # "panicked") =>
              Returned("some") /\ result'.val = Operand(0)
        /\ OpcodeAt(memory, pointer_idx) \in {1, 2, 3, 5, 6, 7, 8, 9} =>
              status' \in {"running", "panicked"}
        /\ \A op \in {1, 2, 7, 8} :
              Executed(op) =>
                  WroteOnly(WriteAddress(2), ValueStored(op)) /\ pointer_idx' = pointer_idx + 4
        /\ Executed(3) =>
              WroteOnly(WriteAddress(0), ValueStored(3)) /\ pointer_idx' = pointer_idx + 2
        /\ Executed(5) =>
              pointer_idx' = (IF Operand(0) # 0 THEN Operand(1) ELSE pointer_idx + 3)
        /\ Executed(6) =>
              pointer_idx' = (IF Operand(0) = 0 THEN Operand(1) ELSE pointer_idx + 3)
        /\ Executed(9) => relative_base' = relative_base + Operand(0)

C19_SelfModifyingCode == [][C19_FreshDecodeStep]_vars

\* the cell 4 was constructed as the add 1101 and overwritten with 2: the step there has
\* multiplied the cells 5 and 6 (30), not added the literals 5 and 6 (11)
C19_Witness ==
    /\ status = "running"
    /\ hist.at = 4 /\ hist.init[5] = 1101 /\ hist.cell = 2
    /\ pointer_idx = 8
    /\ memory[1] = 30

(* C20: the program 109,1,204,-1,1001,100,1,100,1008,100,16,101,1006,101,0, *)
(* 99 run on the day_09 Program by calling run_program until it returns     *)
(* None yields exactly 16 outputs, in order the 16 cells the program was    *)
(* constructed with; until then the outputs are a prefix of those cells,    *)
(* and no call ends in an error or a panic.                                 *)
C20_QuineOutputs ==
    /\ status # "panicked" /\ result.kind # "err"
    /\ Len(hist.out) <= Len(hist.init)
    /\ \A k \in 1..Len(hist.out) : hist.out[k] = hist.init[k]
    /\ result.kind = "none" => (Len(hist.out) = 16 /\ hist.out = hist.init)

\* the run has ended with None after the 16th output, the cell 99
C20_Witness ==
    /\ status = "idle" /\ result.kind = "none" /\ prev.kind = "some" /\ prev.val = 99
    /\ Len(hist.out) = 16
    /\ hist.init = Quine

----------------------------------------------------------------------------
(* 64-bit values *)

\* i64::to_string of p is the text t
Shows(p, t) ==
    /\ IsNegative(p) = t.neg
    /\ t.digits = (IF IsZero(p) THEN <<0>> ELSE DecimalDigits(Magnitude(p)))

\* the text is `104,L,99` with L the text of an i64
OutputsLiteral ==
    /\ Len(hist.text) = 3
    /\ hist.text[1] = Text(104)
    /\ hist.text[3] = Text(99)
    /\ ParseI64(hist.text[2].neg, hist.text[2].digits).ok

\* C21: on the program `104,L,99`, L any literal of i64, the first call of run_program
\* returns Some(L), the value unchanged in all its digits, and the call after it returns
\* None: the program outputs exactly L and halts; nothing panics and nothing else is output.
C21_LiteralOutputUnchanged ==
    (OutputsLiteral /\ status # "text") =>
        /\ status # "panicked"
        /\ result.kind \in {"never", "some", "none"}
        /\ (result.kind = "never" => hist.out = <<>>)
        /\ (result.kind = "some" =>
               /\ prev.kind = "never"
               /\ hist.out = <<result.val>>
               /\ Shows(result.val, hist.text[2]))
        /\ (result.kind = "none" =>
               /\ prev.kind = "some"
               /\ Len(hist.out) = 1
               /\ hist.out[1] = prev.val
               /\ Shows(hist.out[1], hist.text[2]))

\* the program of tests::day09_q1_test1 has output 1125899906842624 and halted
C21_Witness ==
    /\ hist.text = <<Text(104), TwoPow50Text, Text(99)>>
    /\ result.kind = "none"
    /\ Len(hist.out) = 1
    /\ DecimalDigits(hist.out[1]) = <<1, 1, 2, 5, 8, 9, 9, 9, 0, 6, 8, 4, 2, 6, 2, 4>>
    /\ ~IsNegative(hist.out[1])

RECURSIVE DecimalCarry(_, _)
\* carry propagation in base 10, least significant digit first
DecimalCarry(v, c) ==
    IF v = <<>> THEN <<>>
    ELSE <<(v[1] + c) % 10>> \o DecimalCarry(Tail(v), (v[1] + c) \div 10)

RECURSIVE StripZeros(_)
StripZeros(d) == IF Len(d) > 1 /\ d[1] = 0 THEN StripZeros(Tail(d)) ELSE d

\* the product of two decimal numerals by long multiplication
DecimalProduct(x, y) ==
    StripZeros(Reverse(DecimalCarry([k \in 1..(Len(x) + Len(y)) |->
                                        ConvSum(Reverse(x), Reverse(y), k, 1)], 0)))

RECURSIVE NumeralLeq(_, _)
\* x <= y for numerals of the same length
NumeralLeq(x, y) ==
    IF x = <<>> THEN TRUE
    ELSE IF x[1] # y[1] THEN x[1] < y[1]
    ELSE NumeralLeq(Tail(x), Tail(y))

\* the number of sign neg and numeral d is a value of i64
NumeralFitsI64(neg, d) ==
    \/ Len(d) < Len(MaxI64Text.digits)
    \/ Len(d) = Len(MaxI64Text.digits) /\ NumeralLeq(d, MaxI64Text.digits)
    \/ neg /\ d = TooBigText.digits

\* i64::to_string
TextOf(p) ==
    [neg |-> IsNegative(p),
     digits |-> IF IsZero(p) THEN <<0>> ELSE DecimalDigits(Magnitude(p))]

\* the operands of the instruction at the pointer and the address of its third parameter
Operand64(k) ==
    GetParameter64(memory, relative_base,
                   InstructionNew64(memory[pointer_idx + 1]).parameters[k],
                   memory[pointer_idx + 1 + k]).val

Target64 ==
    FromI64(GetOutputIdx64(memory, relative_base, pointer_idx + 3,
                           InstructionNew64(memory[pointer_idx + 1]).parameters[3]).idx)

\* the product of the operands, in decimal
ProductText ==
    [neg |-> /\ IsNegative(Operand64(1)) # IsNegative(Operand64(2))
             /\ DecimalProduct(TextOf(Operand64(1)).digits, TextOf(Operand64(2)).digits) # <<0>>,
     digits |-> DecimalProduct(TextOf(Operand64(1)).digits, TextOf(Operand64(2)).digits)]

Test2Text ==
    <<Text(1102), Text(34915192), Text(34915192), Text(7), Text(4), Text(7), Text(99), Text(0)>>

\* C22: a multiply instruction whose product is a value of i64 stores exactly that
\* product, every digit of it, and the loop goes on (no panic, no truncation); the
\* program 1102,34915192,34915192,7,4,7,99,0 outputs 1219070632396864, a number of
\* 16 decimal digits.
C22_ExactProduct ==
    /\ [](hist.text = Test2Text /\ hist.out # <<>> =>
             /\ TextOf(hist.out[1]) =
                   [neg |-> FALSE, digits |-> <<1, 2, 1, 9, 0, 7, 0, 6, 3, 2, 3, 9, 6, 8, 6, 4>>]
             /\ CharCount(hist.out[1]) = 16)
    /\ [][(/\ status = "running"
           /\ OpcodeAt64(memory, pointer_idx) = 2
           /\ NumeralFitsI64(ProductText.neg, ProductText.digits))
          => (/\ status' = "running"
              /\ pointer_idx' = pointer_idx + 4
              /\ TextOf(memory'[Target64 + 1]) = ProductText)]_vars

\* the program of tests::day09_q1_test2 has multiplied and output the square
C22_Witness ==
    /\ hist.text = Test2Text
    /\ result.kind = "some"
    /\ hist.at = 4
    /\ memory[8] = result.val
    /\ Len(DecimalDigits(result.val)) = 16

----------------------------------------------------------------------------
(* The input of the day_09 Program *)

\* C23: on the program 3,9,8,9,10,9,4,9,99,-1,8 constructed with input v, the first call
\* of run_program returns Some(1) if v = 8 and Some(0) otherwise (0 for v = 7), and every
\* call after it returns None: exactly one output is produced, and no call errs or panics.
C23_EqualsToEight ==
    hist.init = EqualsProgram =>
        /\ status # "panicked"
        /\ result.kind \in {"never", "some", "none"}
        /\ (result.kind = "never" => hist.out = <<>>)
        /\ (result.kind = "some" => prev.kind = "never" /\ hist.out = <<result.val>>)
        /\ (result.kind = "none" => prev.kind \in {"some", "none"})
        /\ Len(hist.out) <= 1
        /\ (hist.out # <<>> => hist.out[1] = (IF first_input = 8 THEN 1 ELSE 0))

\* constructed with 7, the program has output 0 and the call after reported the halt
C23_Witness ==
    /\ hist.init = EqualsProgram
    /\ first_input = 7
    /\ hist.out = <<0>>
    /\ result.kind = "none"
    /\ prev.kind = "some"

\* C27: the value the caller passed to set_input last is the value the next read-input
\* instruction stores.
C27_SetInputIsRead ==
    [][(ReadInput /\ hist.supplied # <<>>)
       => hist'.stored[Len(hist'.stored)] = hist.supplied[Len(hist.supplied)]]_vars

----------------------------------------------------------------------------
(* Mode digits beyond the arity *)

\* n / 100 has a non-zero decimal digit at a position at or beyond the arity of the opcode
DigitBeyondArity(n) ==
    \E i \in ArityOf(n % 100)..(ArityOf(n % 100) + 4) : DigitAt(n \div 100, i) # 0

\* C30: Instruction::new (day_09) returns an error for every n whose n / 100 has a
\* non-zero digit at or beyond the arity of the opcode (199, 9004): no mode digit is
\* silently discarded.
C30_NoModeDigitDiscarded ==
    (hist.at >= 0 /\ hist.cell >= 0 /\ DigitBeyondArity(hist.cell)) => ~hist.ins.ok

----------------------------------------------------------------------------
(* Permutations *)

RECURSIVE Factorial(_)
Factorial(n) == IF n = 0 THEN 1 ELSE n * Factorial(n - 1)

\* v is a permutation of 0..n-1
IsPermutation(v, n) == Len(v) = n /\ {v[k] : k \in 1..Len(v)} = 0..(n - 1)

\* C26: get_permutations(n) terminates; the Vec it returns holds exactly n! vectors,
\* pairwise distinct, each a permutation of 0..n-1 (120 for n = 5); the call of next after
\* the last permutation returns None, which is what ends the collection.
C26_AllPermutations ==
    /\ [](perms.status = "collected" =>
             /\ Len(perms.collected) = Factorial(perms.size)
             /\ Cardinality({perms.collected[k] : k \in 1..Len(perms.collected)})
                   = Len(perms.collected)
             /\ \A k \in 1..Len(perms.collected) : IsPermutation(perms.collected[k], perms.size))
    /\ [](Len(perms.collected) <= Factorial(perms.size))
    /\ <>(perms.status = "collected")

\* get_permutations(5) has returned its 120 vectors
C26_Witness ==
    /\ perms.status = "collected"
    /\ perms.size = 5
    /\ Len(perms.collected) = 120
    /\ perms.collected[1] = <<0, 1, 2, 3, 4>>

----------------------------------------------------------------------------
(* The amplifier chain and the feedback loop *)

\* the orderings of 0..n-1
AllOrderings(n) ==
    {p \in [1..n -> 0..(n - 1)] : \A a \in 1..n : \A b \in 1..n : a # b => p[a] # p[b]}

Maximum(S) == CHOOSE m \in S : \A x \in S : x <= m

RECURSIVE ChainSignal(_, _, _, _)
\* the signal of the series chain from stage j on: every stage a fresh copy of the program
\* that reads its phase first and the previous stage's first output second
ChainSignal(mem, p, j, input) ==
    IF j > Len(p) THEN input
    ELSE ChainSignal(mem, p, j + 1, RunAmplifier(AmplifierNew(mem, p[j], input)).val)

\* C24: what _q1 returns is the maximum, over all 120 orderings of the phases 0..4, of
\* the signal of the five-stage chain (first stage fed 0); for the three test programs it
\* is 43210, 54321 and 65210.
C24_ChainMaximum ==
    (driver.fn = "q1" /\ driver.status = "returned") =>
        /\ Len(driver.orderings) = 120
        /\ {driver.orderings[k] : k \in 1..Len(driver.orderings)} = AllOrderings(AmpCount)
        /\ driver.ret =
              Maximum({ChainSignal(driver.memory, p, 1, 0) : p \in AllOrderings(AmpCount)})
        /\ (driver.memory = Q1Test1 => driver.ret = 43210)
        /\ (driver.memory = Q1Test2 => driver.ret = 54321)
        /\ (driver.memory = Q1Test3 => driver.ret = 65210)

\* the resumes of the ordering the loop is in: round-robin from A, each fed the output of
\* the resume before it (0 for the first)
RoundRobin ==
    \A n \in 1..Len(driver.resumes) :
        /\ driver.resumes[n].amp = (n - 1) % AmpCount
        /\ driver.resumes[n].signal = (IF n = 1 THEN 0 ELSE driver.resumes[n - 1].out)

\* a resume runs one amplifier from the memory and the pointer it stopped at and leaves the
\* memory and the pointer of the others alone
KeepsState ==
    (driver.fn = "q2" /\ driver.status = "loop" /\ driver'.status \in {"loop", "for"}) =>
        /\ \A n \in 1..AmpCount :
              n # driver.amp_idx + 1 => driver'.amplifiers[n] = driver.amplifiers[n]
        /\ driver'.amplifiers[driver.amp_idx + 1].memory =
              RunProgram07(driver.amplifiers[driver.amp_idx + 1].memory,
                           driver.amplifiers[driver.amp_idx + 1].pointer_idx,
                           driver.amplifiers[driver.amp_idx + 1].first_input,
                           driver.input,
                           driver.amplifiers[driver.amp_idx + 1].current_input, MaxSteps).mem

\* the signals of the orderings taken so far, where amplifier E has output in each
SignalsOfE == {driver.signals[k][1] : k \in 1..Len(driver.signals)}

\* C25: in the feedback loop of _q2 the five amplifiers keep their memory and pointer
\* across resumes and are resumed round-robin A,B,C,D,E,A,..., each resume fed the most
\* recent output of the amplifier before it (0 for A's first); the loop of an ordering
\* ends at the first resume that reports halt, the signal of the ordering is the last
\* output of E, and _q2 returns the maximum of the signals over all 120 orderings of the
\* phases 5..9 (139629729 and 18216 for the two test programs).
C25_FeedbackMaximum ==
    /\ [](driver.fn = "q2" /\ driver.status \in {"loop", "for", "returned"} => RoundRobin)
    /\ [][KeepsState]_vars
    /\ []((/\ driver.fn = "q2" /\ driver.status = "returned"
           /\ \A k \in 1..Len(driver.signals) : driver.signals[k] # <<>>) =>
             /\ Len(driver.orderings) = 120
             /\ {driver.orderings[k] : k \in 1..Len(driver.orderings)} = AllOrderings(AmpCount)
             /\ driver.ret = Maximum(SignalsOfE)
             /\ (driver.memory = Q2Test1 => driver.ret = 139629729)
             /\ (driver.memory = Q2Test2 => driver.ret = 18216))

----------------------------------------------------------------------------
(* The periods of the moons *)

RECURSIVE LeastPeriod(_, _, _)
\* the least t' >= t at which the moons, stepped once more, are back at their initial
\* positions and velocities
LeastPeriod(moons, initial, t) ==
    IF IncrementTime(moons) = initial THEN t
    ELSE LeastPeriod(IncrementTime(moons), initial, t + 1)

\* the least period of the moons of an axis started at rest
AxisPeriod(axis) ==
    LeastPeriod(Jupiter1DNew(InitialVals(jupiter.coords, axis)),
                Jupiter1DNew(InitialVals(jupiter.coords, axis)), 1)

\* the positive common multiples of a, b and c up to their product
CommonMultiples(a, b, c) ==
    {m \in 1..(a * b * c) : m % a = 0 /\ m % b = 0 /\ m % c = 0}

\* the least of them
LeastCommonMultiple(a, b, c) ==
    CHOOSE m \in CommonMultiples(a, b, c) : \A x \in CommonMultiples(a, b, c) : m <= x

\* C29: period returns, for every list of 1-D positions at rest, the least t >= 1 after
\* which every moon has its initial position and velocity again, and _q2 returns the
\* least common multiple of the three per-axis periods (2772 for the first test system).
C29_LeastPeriod ==
    /\ \A k \in 1..Len(jupiter.periods) : jupiter.periods[k] = AxisPeriod(k)
    /\ jupiter.status = "returned" =>
          /\ jupiter.ret = LeastCommonMultiple(AxisPeriod(1), AxisPeriod(2), AxisPeriod(3))
          /\ (jupiter.coords = MoonsTest1 => jupiter.ret = 2772)

----------------------------------------------------------------------------
(* The map of the droid *)

RECURSIVE ReachableFrom(_, _)
\* the cells of the maze that are no wall and can be walked to from the cells given,
\* the oxygen system passed through like any other
ReachableFrom(cells, seen) ==
    IF \A c \in seen : \A k \in 1..4 : Neighbours(c)[k] \in cells => Neighbours(c)[k] \in seen
    THEN seen
    ELSE ReachableFrom(cells,
             seen \cup {n \in cells : \E c \in seen : \E k \in 1..4 : Neighbours(c)[k] = n})

\* every reachable cell is in the map, and so is every neighbour of an Open or System
\* square of the map
CompletelyFilledIn ==
    /\ \A c \in ReachableFrom(droid.program.cells, {Coordinate(0, 0)}) :
          c \in DOMAIN droid.floor_map
    /\ \A c \in DOMAIN droid.floor_map :
          droid.floor_map[c] \in {"Open", "System"} =>
              \A k \in 1..4 : Neighbours(c)[k] \in DOMAIN droid.floor_map

\* C28: once find_leak(false) has returned Ok, every cell of the maze reachable from the
\* origin is in floor_map together with every neighbour of every Open or System square,
\* and time_for_oxygen_spread looks up no square that is missing.
C28_MapCompletelyFilledIn ==
    /\ (~droid.stop_on_leak /\ droid.status \in {"mapped", "oxygen", "returned", "panicked"})
          => CompletelyFilledIn
    /\ ~(droid.status = "oxygen" /\ \E c \in LookedUp : c \notin DOMAIN droid.floor_map)

----------------------------------------------------------------------------
(* The paths of the droid *)

\* the 4-neighbours of a coordinate
Adjacent(c) == {Neighbours(c)[k] : k \in 1..4}

RECURSIVE StepsBetween(_, _, _, _, _)
\* the least number of steps from the squares reached after n steps to `to`, every square
\* stepped from being `from` or Open; -1 where there is no such walk
StepsBetween(floor_map, reached, seen, to, n) ==
    IF to \in reached THEN n
    ELSE IF reached = {} THEN -1
    ELSE StepsBetween(floor_map,
             UNION {Adjacent(c) : c \in {r \in reached : n = 0 \/ IsOpen(floor_map, r)}}
                 \ (seen \cup reached),
             seen \cup reached, to, n + 1)

\* a walk from `from` to `to` over adjacent squares, the squares between them Open
IsWalk(floor_map, path, from, to) ==
    /\ path # <<>>
    /\ path[1] = from
    /\ path[Len(path)] = to
    /\ \A k \in 1..(Len(path) - 1) : path[k + 1] \in Adjacent(path[k])
    /\ \A k \in 2..(Len(path) - 1) : IsOpen(floor_map, path[k])

\* C38: whenever `to` is `from` or can be walked to from `from` through Open squares,
\* shortest_path_from_to returns a walk from `from` to `to` of the least length there is
\* (the one-element path when from = to), and steps_to_get_to returns that length less 1.
C38_ShortestPath ==
    (/\ droid.status = "returned"
     /\ StepsBetween(droid.floor_map, {droid.from}, {}, droid.to, 0) >= 0) =>
        /\ droid.ok
        /\ IsWalk(droid.floor_map, droid.path, droid.from, droid.to)
        /\ Len(droid.path) = StepsBetween(droid.floor_map, {droid.from}, {}, droid.to, 0) + 1
        /\ droid.called = "steps_to_get_to" =>
              droid.ret = StepsBetween(droid.floor_map, {droid.from}, {}, droid.to, 0)

----------------------------------------------------------------------------
(* The inputs of an Amplifier *)

\* the value a read-input of the Amplifier is due: the phase setting for the first of its
\* life, afterwards the value passed to set_input last, the second_input of the
\* constructor where there was no such call
InputDue ==
    IF hist.stored = <<>> THEN first_input
    ELSE IF hist.supplied = <<>> THEN second_input
    ELSE hist.supplied[Len(hist.supplied)]

C32_ReadInputStep ==
    ReadInput07 =>
        /\ memory'[memory[pointer_idx + 2] + 1] = InputDue
        /\ hist'.stored = Append(hist.stored, InputDue)

----------------------------------------------------------------------------
(* Negative instruction cells *)

C39_NegativeCellStep ==
    (status = "running" /\ IndexOk(pointer_idx, Len(memory)) /\ memory[pointer_idx + 1] < 0) =>
        /\ status' = "idle"
        /\ result'.kind = "err"
        /\ memory' = memory
        /\ pointer_idx' = pointer_idx

\* C39: a negative cell under the pointer is never executed as an instruction: run_program
\* of day_09 returns a decode error for every negative cell value, no value v + 2^64
\* decoding to an accepted opcode.
C39_NegativeCellIsError == [][C39_NegativeCellStep]_vars

----------------------------------------------------------------------------
(* The two machines on one program *)

\* a cell whose opcode is one of 1, 2, 4..8, 99 and whose mode digits are 0 or 1
SharedInstruction(cell) ==
    /\ cell >= 0
    /\ cell % 100 \in {1, 2, 4, 5, 6, 7, 8, 99}
    /\ \A i \in 0..4 : DigitAt(cell \div 100, i) <= 1

\* neither machine has decoded another cell, grown its memory or failed on an index
WithinSharedPart ==
    /\ \A k \in 1..Len(twin.cells09) : SharedInstruction(twin.cells09[k])
    /\ \A k \in 1..Len(twin.cells07) : SharedInstruction(twin.cells07[k])
    /\ \A k \in 1..Len(twin.results09) :
          /\ Len(twin.results09[k].mem) = Len(twin.init)
          /\ twin.results09[k].msg \notin {OutOfBounds, BadAddress}
    /\ \A k \in 1..Len(twin.results07) : twin.results07[k].msg # OutOfBounds

\* C31: on every program of opcodes 1..8 and 99 with mode digits 0 and 1 that reads no
\* input and addresses no cell outside its memory, the successive calls of run_program
\* return the same results on the day_09 Program and on the day_07 Amplifier and leave
\* the same memory.
C31_ConservativeExtension ==
    (twin.status \in {"program", "done"} /\ WithinSharedPart) =>
        \A k \in 1..Len(twin.results09) :
            /\ twin.results09[k].kind = twin.results07[k].kind
            /\ twin.results09[k].val = twin.results07[k].val
            /\ twin.results09[k].mem = twin.results07[k].mem

----------------------------------------------------------------------------
(* The painting robot, told from the values run_program returned *)

\* a quarter turn of the vector v: to the left for 0, to the right for 1
Rotated(v, turn) == IF turn = 0 THEN Coordinate(-v.y, v.x) ELSE Coordinate(v.y, -v.x)

RECURSIVE HeadingAfter(_, _)
\* where the robot faces after k turn outputs of outs, Up being (0, 1)
HeadingAfter(outs, k) ==
    IF k = 0 THEN Coordinate(0, 1) ELSE Rotated(HeadingAfter(outs, k - 1), outs[2 * k])

RECURSIVE CellAfter(_, _)
\* the cell the robot occupies after k turn-and-move steps
CellAfter(outs, k) ==
    IF k = 0 THEN Coordinate(0, 0)
    ELSE Coordinate(CellAfter(outs, k - 1).x + HeadingAfter(outs, k).x,
                    CellAfter(outs, k - 1).y + HeadingAfter(outs, k).y)

\* the vector of a Direction
Facing(direction) ==
    CASE direction = "Up" -> Coordinate(0, 1)
      [] direction = "Right" -> Coordinate(1, 0)
      [] direction = "Down" -> Coordinate(0, -1)
      [] direction = "Left" -> Coordinate(-1, 0)

\* the paint outputs among outs are the 1st, 3rd, ...: their number
PaintCount(outs) == (Len(outs) + 1) \div 2

\* the paint outputs that coloured the cell c
PaintsOf(outs, c) == {k \in 1..PaintCount(outs) : CellAfter(outs, k - 1) = c}

\* the cells that received a paint output
PaintedCells(outs) == {CellAfter(outs, k - 1) : k \in 1..PaintCount(outs)}

\* the colour of the cell c: 0 if it was never painted, else its most recent paint output
ColourOf(outs, c) ==
    IF PaintsOf(outs, c) = {} THEN 0
    ELSE outs[2 * (CHOOSE k \in PaintsOf(outs, c) : \A j \in PaintsOf(outs, c) : j <= k) - 1]

\* C33: the outputs are consumed alternately as paint colour and turn; the robot
\* starts at (0,0) facing Up, the k-th paint output colours the cell reached after k-1
\* turn-and-move steps, each turn output (0 left, 1 right) rotates the robot a quarter
\* turn and moves it one cell that way, an output outside {0,1} ends the run with an
\* error, and the result is the number of distinct cells painted before the halt.
C33_PaintAndTurn ==
    /\ robot.status \in {"set_input", "paint", "turn", "done"} =>
          /\ \A i \in 1..Len(robot.outputs) : robot.outputs[i] \in {0, 1}
          /\ robot.current_coord = CellAfter(robot.outputs, Len(robot.outputs) \div 2)
          /\ Facing(robot.current_orientation)
                = HeadingAfter(robot.outputs, Len(robot.outputs) \div 2)
          /\ DOMAIN robot.paint_grid = PaintedCells(robot.outputs)
          /\ \A c \in DOMAIN robot.paint_grid :
                robot.paint_grid[c]
                    = (IF ColourOf(robot.outputs, c) = 0 THEN "Black" ELSE "White")
    /\ robot.status \in {"set_input", "paint"} => Len(robot.outputs) % 2 = 0
    /\ robot.status = "turn" => Len(robot.outputs) % 2 = 1
    /\ robot.status = "done" =>
          /\ robot.ok
          /\ robot.ret = Cardinality(PaintedCells(robot.outputs))
    /\ (robot.status \notin {"unused", "panic"} /\ robot.outputs # <<>>
            /\ robot.outputs[Len(robot.outputs)] \notin {0, 1})
          => /\ robot.status = "err"
             /\ ~robot.ok
             /\ robot.msg = (IF Len(robot.outputs) % 2 = 1 THEN "Invalid colour"
                             ELSE "Invalid direction output from program")

\* a run that returned after the robot had gone round a square twice
C33_Witness ==
    /\ robot.status = "done"
    /\ Len(robot.outputs) = 16
    /\ robot.ret = 4
    /\ robot.current_coord = Coordinate(0, 0)

\* the cell a read-input instruction under the pointer stores to
ReadTarget(program) ==
    IF (program.memory[program.pointer_idx + 1] \div 100) % 10 = 2
    THEN program.relative_base + program.memory[program.pointer_idx + 2]
    ELSE program.memory[program.pointer_idx + 2]

\* a read-input instruction executed before the paint output of a cycle
C34_ReadStep ==
    (/\ robot.status = "paint"
     /\ robot'.status = "paint"
     /\ robot.program.memory[robot.program.pointer_idx + 1] % 100 = 3
     /\ robot'.program.pointer_idx = robot.program.pointer_idx + 2)
        => robot'.program.memory[ReadTarget(robot.program) + 1]
              = ColourOf(robot.outputs,
                         CellAfter(robot.outputs, Len(robot.outputs) \div 2))

\* C34: every read-input instruction executed between the start of a paint/turn cycle
\* and its paint output stores the colour of the cell under the robot (0 if it was
\* never painted, else its most recent paint output); reading does not consume the
\* register, so repeated reads store the same value.
C34_ReadsColourUnderRobot == [][C34_ReadStep]_vars

\* the second read of a cycle has stored the colour White of a cell painted before
C34_Witness ==
    /\ robot.status = "paint"
    /\ Len(robot.outputs) >= 8
    /\ robot.program.pointer_idx = 4
    /\ robot.program.memory[1] = 3
    /\ robot.program.memory[3] = 3
    /\ robot.program.memory[25] = 1
    /\ robot.program.memory[26] = 1

----------------------------------------------------------------------------
(* The arcade cabinet, told from the values run_program returned *)

\* the triples completed among outs, and the fields of the k-th
TripleCount(outs) == Len(outs) \div 3
TripleX(outs, k) == outs[3 * k - 2]
TripleY(outs, k) == outs[3 * k - 1]
TripleV(outs, k) == outs[3 * k]

\* the k-th triple is a score triple
IsScoreTriple(outs, k) == TripleX(outs, k) = -1 /\ TripleY(outs, k) = 0

\* the tile numbered v
TileNamed(v) ==
    CASE v = 0 -> "Empty" [] v = 1 -> "Wall" [] v = 2 -> "Block" [] v = 3 -> "Paddle"
      [] v = 4 -> "Ball"

\* the key of the display for the cell (x, y)
CellKey(x, y) == Coordinate13(AsUsize(x), AsUsize(y))

\* among the first n triples, the score triples and the tile triples of the cell c
ScoreTriples(outs, n) == {k \in 1..n : IsScoreTriple(outs, k)}
TileTriples(outs, n) == {k \in 1..n : ~IsScoreTriple(outs, k)}
TileTriplesAt(outs, n, c) ==
    {k \in TileTriples(outs, n) : CellKey(TripleX(outs, k), TripleY(outs, k)) = c}

\* the latest of a non-empty set of triples
Latest(ks) == CHOOSE k \in ks : \A j \in ks : j <= k

\* the triples that have taken effect: all the completed ones, but for a last one whose
\* third value is no tile
Effective ==
    IF arcade.status = "err" /\ arcade.msg = "Invalid colour"
    THEN TripleCount(arcade.outputs) - 1 ELSE TripleCount(arcade.outputs)

\* C35: the outputs are consumed in triples (x, y, v): a triple (-1, 0, v) sets the
\* score to v and changes no tile, any other triple sets display[(x,y)] to the tile v
\* and leaves the score, the score changes in no other way, and the one or two outputs
\* of a triple left open at the halt have no effect.
C35_Triples ==
    arcade.status # "unused" =>
        /\ arcade.program.score =
              (IF ScoreTriples(arcade.outputs, Effective) = {} THEN AsUsize(0)
               ELSE [carry |-> 0,
                     low |-> TripleV(arcade.outputs,
                                     Latest(ScoreTriples(arcade.outputs, Effective)))])
        /\ DOMAIN arcade.program.display =
              {CellKey(TripleX(arcade.outputs, k), TripleY(arcade.outputs, k)) :
                  k \in TileTriples(arcade.outputs, Effective)}
        /\ \A c \in DOMAIN arcade.program.display :
              arcade.program.display[c] =
                  TileNamed(TripleV(arcade.outputs,
                                    Latest(TileTriplesAt(arcade.outputs, Effective, c))))
        /\ arcade.status = "x" => Len(arcade.outputs) % 3 = 0
        /\ arcade.status = "y" => Len(arcade.outputs) % 3 = 1
        /\ arcade.status = "third" => Len(arcade.outputs) % 3 = 2

\* the VM halted two outputs into a triple, after a score triple and a tile overwritten
C35_Witness ==
    /\ arcade.status = "done"
    /\ Len(arcade.outputs) = 11
    /\ arcade.program.score = AsUsize(4)
    /\ CellKey(0, 0) \in DOMAIN arcade.program.display
    /\ arcade.program.display[CellKey(0, 0)] = "Empty"

\* the sign of n
SignOf(n) == CASE n > 0 -> 1 [] n = 0 -> 0 [] n < 0 -> -1

\* x of the latest completed tile triple of the given tile, 0 before any
LatestX(outs, tile) ==
    IF {k \in TileTriples(outs, TripleCount(outs)) : TripleV(outs, k) = tile} = {} THEN 0
    ELSE TripleX(outs, Latest({k \in TileTriples(outs, TripleCount(outs)) :
                                  TripleV(outs, k) = tile}))

\* a read-input instruction executed by run_program
C36_ReadStep ==
    (/\ arcade.status \in {"x", "y", "third"}
     /\ arcade'.status = arcade.status
     /\ arcade.program.memory[arcade.program.pointer_idx + 1] % 100 = 3
     /\ arcade'.program.pointer_idx = arcade.program.pointer_idx + 2)
        => arcade'.program.memory[ReadTarget(arcade.program) + 1]
              = SignOf(LatestX(arcade.outputs, 4) - LatestX(arcade.outputs, 3))

\* C36: the value stored by every read-input instruction of the day_13 Program is the
\* sign of ball.x - paddle.x, ball and paddle being the coordinates of the latest
\* completed Ball and Paddle triples ((0,0) before any); the value passed to set_input
\* has no influence on it.
C36_JoystickFollowsBall == [][C36_ReadStep]_vars

\* after set_input(1), a read has stored -1: the paddle is to the right of the ball
C36_Witness ==
    /\ arcade.status = "x"
    /\ arcade.program.input = 1
    /\ Len(arcade.outputs) >= 6
    /\ arcade.program.pointer_idx = 14
    /\ arcade.program.memory[13] = 3
    /\ arcade.program.memory[33] = -1

\* C37: the early exit of run_game on a display without Block tiles is unreachable:
\* wherever the count is evaluated it is at least 1, and run_game returns Ok only
\* after the VM has reported the halt, also when every Block tile has been overwritten.
C37_EarlyExitUnreachable ==
    /\ arcade.status # "exit"
    /\ (arcade.status # "unused" /\ arcade.ok) =>
          (arcade.status = "done" /\ arcade.halted)
    /\ (/\ arcade.status = "third"
        /\ ArcadeExec.kind = "some"
        /\ ~(arcade.x = -1 /\ arcade.y = 0)
        /\ ArcadeTile.ok
        /\ ArcadeTile.tile = "Block") => BlockCount(ArcadeTiled.display) >= 1

\* run_game has returned on the halt after the only Block tile was overwritten
C37_Witness ==
    /\ arcade.status = "done"
    /\ arcade.halted
    /\ BlockCount(arcade.program.display) = 0
    /\ \E k \in TileTriples(arcade.outputs, TripleCount(arcade.outputs)) :
          TripleV(arcade.outputs, k) = 2

====
